---- MODULE Spec2Model ----
(***************************************************************************)
(* A model of the documentation-impact pipeline of muze (scripts/hotpath): *)
(* the semantic layer (tree edit distance and change classification), the  *)
(* Aho-Corasick cross-reference matcher, the community layer, the          *)
(* similarity layer, the impact scorer and the doc writer.                 *)
(*                                                                         *)
(* Each layer has its own specification (SpecSem, SpecAC, ...) over the    *)
(* shared variables; a layer that a specification does not run keeps its   *)
(* variables at their idle values.                                         *)
(*                                                                         *)
(* Numbers that are floats in the program are kept exact: a normalized     *)
(* distance d/m is compared with a threshold t by cross-multiplication in  *)
(* per-mille (1000*d <= t*m), and a score is kept as a numerator over the  *)
(* denominator 2*|entities|.                                               *)
(***************************************************************************)
EXTENDS Integers, Sequences, FiniteSets, TLC

VARIABLES
    settings,        \* PipelineSettings fields the modelled layers read
    old_files,       \* analyze_semantic_diff: path -> code of the old snapshot
    new_files,       \* analyze_semantic_diff: path -> code of the new snapshot
    todo,            \* remaining paths of `for path in sorted(common_paths)`
    changes,         \* analyze_semantic_diff: the list of change records
    stats,           \* analyze_semantic_diff: change type -> count
    files_analyzed,  \* analyze_semantic_diff: counter
    sem_pc,          \* position in analyze_semantic_diff
    sem_ret,         \* the dict analyze_semantic_diff returns (NoResult before)
    entities,        \* find_references: the set of entity names
    doc_content,     \* find_references: the text of the document
    patterns,        \* AhoCorasick.patterns
    trie,            \* AhoCorasick.root: node (its path from the root) -> node fields
    queue,           \* _build_failure_links: the BFS queue
    text,            \* search: the text after case folding
    pos,             \* search: the index i of the next character (0-based)
    node,            \* search: the current node
    matches,         \* search: the list of matches
    ac_pc,           \* position in find_references
    ac_ret,          \* the dict find_references returns (NoResult before)
    doc,             \* the doc file of append_documentation: does it exist, its text
    sections,        \* the sections append_documentation is called with
    written,         \* the text of the doc file after each call so far
    analysis,        \* the AnalysisResult given to prioritize_documentation
    prio_runs,       \* what prioritize_documentation returned, run by run
    signatures,      \* analyze_similarity: file id -> MinHash signature
    sim_runs,        \* what analyze_similarity returned, run by run
    louvain_installed, \* whether networkx and community can be imported
    com_todo,        \* analyze_communities: the code files still to read
    com_seen,        \* the code files of the tarball enumerated so far, in order
    defined_funcs,   \* function name -> node id of its first definition
    adj,             \* node id -> the node ids it calls
    nodes_meta,      \* the node ids created during the graph build
    undirected,      \* the symmetrized graph
    labels,          \* node id -> community label
    lp_iter,         \* rounds of label propagation done
    comm_map,        \* label -> members
    com_pc,          \* position in analyze_communities
    com_ret,         \* what analyze_communities returned
    ana_layers,      \* analyze_changes: what each layer call returns or raises
    ana_calls,       \* the pipeline layers analyze_changes has called, in order
    ana_local,       \* the locals of analyze_changes that go into the result
    ana_warnings,    \* the layers whose failure was printed as a warning
    ana_pc,          \* position in analyze_changes
    ana_ret,         \* the AnalysisResult returned, or the exception raised
    http_log,        \* the HTTP requests made so far and what came back
    rb_branch,       \* _resolve_branch_with_fallback: the branch asked for
    rb_pc,           \* position in _resolve_branch_with_fallback
    rb_ret,          \* what _resolve_branch_with_fallback returned or raised
    fx_local,        \* analyze_semantic_diff: old_ref, new_ref, old_sha, new_sha
    fx_pc,           \* position in the fetch part of analyze_semantic_diff
    fx_ret,          \* whether analyze_semantic_diff returned, or what it raised
    snap_backend,    \* which backend produced the archive: "github" or "local"
    snap_tree,       \* the repository-relative paths of the files of the ref
    snap_tar,        \* the members of the fetched tar archive, in order
    snap_files,      \* the snapshot: stripped path -> file the bytes came from
    snap_pc,         \* position in fetching and indexing the snapshot
    llm_client,      \* LLMDocGenerator.client is not None
    llm_args,        \* the arguments of generate_doc_update
    llm_resp,        \* what _call_llm returned (response_text, tokens_used) or raised
    llm_pc,          \* position in generate_doc_update
    llm_ret,         \* the DocSuggestion returned, or the exception raised
    upd_docs,        \* the docs directory: doc file name -> does it exist, its text
    upd_changes,     \* main: the changes that need documentation
    upd_i,           \* generate_llm_documentation: index of the next change
    upd_sugg,        \* the suggestion generated for each change so far
    upd_status,      \* what became of each change in generate_llm_documentation
    upd_grouped,     \* grouped: the doc files, in insertion order, with their sections
    upd_w,           \* main: index of the next doc file to write
    upd_pc,          \* position in main
    e2e_in,          \* the changed code file, the entity it defines, the docs' mentions
    e2e_pc,          \* position in analyze_changes followed by prioritize_documentation
    repo_files,      \* analyze_similarity: file id -> the bytes of the tar member
    repo_pc,         \* position in analyze_similarity
    xref_entities,   \* analyze_cross_references: all_entities, as extracted from the code
    xref_order,      \* the order in which list(entities) enumerates all_entities
    xref_docs,       \* doc_files: doc name -> content
    xref_i,          \* index of the next doc file of the loop
    xref_refs,       \* references_by_doc so far
    xref_e2d,        \* entity_to_docs so far
    xref_pc,         \* position in analyze_cross_references
    xref_ret,        \* what pipeline.analyze_cross_references returned
    zs_in,           \* ZhangShashaDistance.compute: the two trees
    zs_stack,        \* the frames of _tree_distance / _forest_distance in progress
    zs_memo,         \* self.memo
    zs_hits,         \* how often the memo table answered
    zs_ret,          \* what compute returned
    zs_pc,           \* position in compute
    mk_data,         \* merkle_root_for_bytes: the bytes of the two files compared
    mk_size,         \* chunk_size
    mk_layer,        \* layer, per file
    mk_pc,           \* position in merkle_root_for_bytes, per file
    mk_ret,          \* (root_hex, num_chunks), per file
    pt_adapters,     \* local_git_adapter.py: repo_path of the adapter of each HotPathAnalyzer, in order of construction
    pt_closures,     \* the wrappers patch_pipeline_for_local_git has made: (function, adapter, original_*)
    pt_pipeline,     \* the module attributes pipeline.<name>: 0 is the def of pipeline.py, k the wrapper pt_closures[k]
    pt_call,         \* the call made through the module attribute, and how many analyzers existed then
    pt_at,           \* the function value executing
    pt_args,         \* the arguments it was called with
    pt_pc,           \* "idle", "called" or "returned"
    pt_ret           \* who answered: a method of an adapter, or the def of pipeline.py, and its arguments

semVars == <<settings, old_files, new_files, todo, changes, stats,
             files_analyzed, sem_pc, sem_ret>>

acVars == <<entities, doc_content, patterns, trie, queue, text, pos, node,
            matches, ac_pc, ac_ret>>

docVars == <<doc, sections, written>>

prioVars == <<analysis, prio_runs>>

simVars == <<signatures, sim_runs>>

comVars == <<louvain_installed, com_todo, com_seen, defined_funcs, adj, nodes_meta,
             undirected, labels, lp_iter, comm_map, com_pc, com_ret>>

anaVars == <<ana_layers, ana_calls, ana_local, ana_warnings, ana_pc, ana_ret>>

httpVars == <<http_log, rb_branch, rb_pc, rb_ret, fx_local, fx_pc, fx_ret>>

snapVars == <<snap_backend, snap_tree, snap_tar, snap_files, snap_pc>>

llmVars == <<llm_client, llm_args, llm_resp, llm_pc, llm_ret>>

updVars == <<upd_docs, upd_changes, upd_i, upd_sugg, upd_status, upd_grouped, upd_w, upd_pc>>

e2eVars == <<e2e_in, e2e_pc>>

repoVars == <<repo_files, repo_pc>>

xrefVars == <<xref_entities, xref_order, xref_docs, xref_i, xref_refs, xref_e2d, xref_pc, xref_ret>>

zsVars == <<zs_in, zs_stack, zs_memo, zs_hits, zs_ret, zs_pc>>

mkVars == <<mk_data, mk_size, mk_layer, mk_pc, mk_ret>>

ptVars == <<pt_adapters, pt_closures, pt_pipeline, pt_call, pt_at, pt_args, pt_pc, pt_ret>>

vars == <<semVars, acVars, docVars, prioVars, simVars, comVars, anaVars, httpVars, snapVars, llmVars, updVars, e2eVars, repoVars, xrefVars, zsVars, mkVars, ptVars>>

NoValue == "None"
NoTree == [type |-> "None", value |-> NoValue, children |-> <<>>]  \* a tree that is None
NoResult == [returned |-> FALSE]                                   \* nothing returned yet

(***************************************************************************)
(* Bounds of the model.                                                    *)
(***************************************************************************)
MaxTreeSize == 4     \* every tree with at most this many nodes is an input
MaxPairSize == 7     \* ... and every pair of them with at most this many nodes
MaxBranches == 4     \* larger trees: a root over up to this many three-node subtrees

Min2(a, b) == IF a <= b THEN a ELSE b
Max2(a, b) == IF a >= b THEN a ELSE b
Min3(a, b, c) == Min2(a, Min2(b, c))

(***************************************************************************)
(* semantic.py: TreeNode                                                   *)
(***************************************************************************)
TreeNode(type, value, children) ==
    [type |-> type, value |-> value, children |-> children]

RECURSIVE size(_)
size(n) ==
    LET RECURSIVE Sum(_)
        Sum(i) == IF i = 0 THEN 0 ELSE size(n.children[i]) + Sum(i - 1)
    IN 1 + Sum(Len(n.children))

RECURSIVE depth(_)
depth(n) ==
    LET RECURSIVE MaxD(_)
        MaxD(i) == IF i = 0 THEN 0 ELSE Max2(depth(n.children[i]), MaxD(i - 1))
    IN IF n.children = <<>> THEN 1 ELSE 1 + MaxD(Len(n.children))

(***************************************************************************)
(* The trees given to the semantic layer.  Node types come from NodeTypes; *)
(* a leaf carries a text value, an inner node none.                        *)
(***************************************************************************)
NodeTypes == {"a", "b"}
LeafValue == "v"

RECURSIVE TreesOfSize(_), ForestsOfSize(_)
TreesOfSize(n) ==
    IF n = 1
    THEN {TreeNode(t, LeafValue, <<>>) : t \in NodeTypes}
    ELSE {TreeNode(t, NoValue, f) : t \in NodeTypes, f \in ForestsOfSize(n - 1)}
ForestsOfSize(n) ==
    IF n = 0
    THEN {<<>>}
    ELSE UNION {{<<t>> \o f : t \in TreesOfSize(k), f \in ForestsOfSize(n - k)} :
                k \in 1..n}

SmallTrees == UNION {TreesOfSize(n) : n \in 1..MaxTreeSize}

\* Larger trees, needed for a normalized distance of 0.1 and less: a module
\* over c subtrees of a node with two leaves; the first k leaves are of type "b".
BushyTree(c, k) ==
    TreeNode("module", NoValue,
             [i \in 1..c |->
                TreeNode("a", NoValue,
                         [j \in 1..2 |->
                            TreeNode(IF 2 * (i - 1) + j <= k THEN "b" ELSE "a",
                                     LeafValue, <<>>)])])

BigTrees == {BushyTree(c, k) : c \in (MaxBranches - 1)..MaxBranches, k \in 0..2}

\* The pairs (old tree, new tree) the semantic layer is run on.
TreePairs ==
    {<<t1, t2>> \in SmallTrees \X SmallTrees : size(t1) + size(t2) <= MaxPairSize}
    \cup {<<t, t>> : t \in SmallTrees}
    \cup (BigTrees \X BigTrees)

(***************************************************************************)
(* semantic.py: ZhangShashaDistance with the default unit costs            *)
(***************************************************************************)
insert_cost == 1
delete_cost == 1
rename_cost == 1

_tree_cost(tree) == size(tree)

_nodes_equal_leaves_only(n1, n2) ==
    IF n1.type # n2.type THEN FALSE
    ELSE IF n1.children = <<>> /\ n2.children = <<>> THEN n1.value = n2.value
    ELSE FALSE

_nodes_equal(n1, n2) ==
    IF n1.type # n2.type THEN FALSE
    ELSE IF n1.children = <<>> /\ n2.children = <<>> THEN n1.value = n2.value
    ELSE TRUE

RECURSIVE ForestCost(_)
ForestCost(forest) ==
    IF forest = <<>> THEN 0
    ELSE _tree_cost(Head(forest)) + ForestCost(Tail(forest))

RECURSIVE _tree_distance(_, _), _forest_distance(_, _)

\* The memo table of the program is keyed by id(t1), id(t2); during one compute
\* call both trees are alive, so a key names one pair of subtrees and the table
\* only saves recomputation.
_tree_distance(t1, t2) ==
    IF t1 = NoTree /\ t2 = NoTree THEN 0
    ELSE IF t1 = NoTree THEN _tree_cost(t2) * insert_cost
    ELSE IF t2 = NoTree THEN _tree_cost(t1) * delete_cost
    ELSE
        LET cost1 == delete_cost + _forest_distance(t1.children, <<t2>>)
            cost2 == insert_cost + _forest_distance(<<t1>>, t2.children)
            rename == IF _nodes_equal(t1, t2) THEN 0 ELSE rename_cost
            cost3 == rename + _forest_distance(t1.children, t2.children)
        IN Min3(cost1, cost2, cost3)

\* dp is filled row by row as in the program: Row(i)[j + 1] is dp[i][j].
_forest_distance(forest1, forest2) ==
    IF forest1 = <<>> /\ forest2 = <<>> THEN 0
    ELSE IF forest1 = <<>> THEN ForestCost(forest2) * insert_cost
    ELSE IF forest2 = <<>> THEN ForestCost(forest1) * delete_cost
    ELSE
        LET m == Len(forest1)
            n == Len(forest2)
            RECURSIVE Row0(_)
            Row0(j) ==
                IF j = 0 THEN <<0>>
                ELSE LET r == Row0(j - 1)
                     IN Append(r, r[j] + _tree_cost(forest2[j]) * insert_cost)
            RECURSIVE Fill(_, _, _, _)
            Fill(prev, i, j, acc) ==
                IF j > n THEN acc
                ELSE
                    LET delete == prev[j + 1] + _tree_cost(forest1[i]) * delete_cost
                        insert == acc[j] + _tree_cost(forest2[j]) * insert_cost
                        match == prev[j] + _tree_distance(forest1[i], forest2[j])
                    IN Fill(prev, i, j + 1, Append(acc, Min3(delete, insert, match)))
            RECURSIVE Row(_)
            Row(i) ==
                IF i = 0 THEN Row0(n)
                ELSE LET prev == Row(i - 1)
                     IN Fill(prev, i, 1,
                             <<prev[1] + _tree_cost(forest1[i]) * delete_cost>>)
        IN Row(m)[n + 1]

\* compute returns (distance, operations); operations is always the empty list.
compute(tree1, tree2) == _tree_distance(tree1, tree2)

(***************************************************************************)
(* semantic.py: SemanticDiff                                               *)
(***************************************************************************)
ChangeTypes == {"identical", "refactor", "minor", "major", "rewrite"}

\* Thresholds in per-mille of the normalized distance.
IdenticalBelow == 1        \* normalized < 0.001
threshold_refactor == 100  \* 0.1, as analyze_semantic_diff passes it
threshold_major == 600     \* 0.6, as analyze_semantic_diff passes it
DefaultThresholdMinor == 300   \* PipelineSettings.tree_edit_distance_threshold
TunedThresholdMinor == 450     \* a tuned setting

\* A code is the text of a file.  The parser is deterministic: the text fixes the
\* tree (ast); texts that differ only in layout (ws) have the same tree.
\* NonUtf8 is a file whose bytes do not decode.
NonUtf8 == [ast |-> NoTree, ws |-> "non-utf8"]
Code(ast, ws) == [ast |-> ast, ws |-> ws]

\* ASTParser.parse: the tree-sitter tree or, without tree-sitter, the fallback
\* tree; never None.
parse(code, language) == code.ast

\* round(normalized, 4), in units of 0.0001.  (No tie arises below 32 nodes.)
Round4(distance, max_size) == (20000 * distance + max_size) \div (2 * max_size)

ClassifyStrict(distance, max_size, thr_refactor, thr_minor, thr_major) ==
    IF 1000 * distance < IdenticalBelow * max_size THEN "identical"
    ELSE IF 1000 * distance < thr_refactor * max_size THEN "refactor"
    ELSE IF 1000 * distance < thr_minor * max_size THEN "minor"
    ELSE IF 1000 * distance < thr_major * max_size THEN "major"
    ELSE "rewrite"

\* The if/elif chain of analyze_change on normalized = distance / max_size.
Classify(distance, max_size, thr_refactor, thr_minor, thr_major) ==
    IF 1000 * distance < IdenticalBelow * max_size THEN "identical"
    ELSE IF 1000 * distance <= thr_refactor * max_size THEN "refactor"
    ELSE IF 1000 * distance <= thr_minor * max_size THEN "minor"
    ELSE IF 1000 * distance <= thr_major * max_size THEN "major"
    ELSE "rewrite"

ParseFailure ==
    [change_type |-> "major", distance |-> "inf", normalized_distance |-> 10000,
     error |-> "Failed to parse code"]

analyze_change(tree1, tree2, thr_refactor, thr_minor, thr_major) ==
    IF tree1 = NoTree \/ tree2 = NoTree THEN ParseFailure
    ELSE
        LET distance == compute(tree1, tree2)
            max_size == Max2(size(tree1), size(tree2))
        IN [change_type |-> IF max_size > 0
                            THEN Classify(distance, max_size,
                                          thr_refactor, thr_minor, thr_major)
                            ELSE "identical",
            distance |-> distance,
            normalized_distance |-> IF max_size > 0 THEN Round4(distance, max_size)
                                    ELSE 0,
            size1 |-> size(tree1),
            size2 |-> size(tree2),
            depth1 |-> depth(tree1),
            depth2 |-> depth(tree2),
            operations_count |-> 0]

should_update_documentation_major_only(change_info) ==
    change_info.change_type \in {"major", "rewrite"}

should_update_documentation(change_info) ==
    IF change_info.change_type \in {"identical", "refactor"} THEN FALSE ELSE TRUE


(***************************************************************************)
(* pattern_matching.py: AhoCorasick.  A string is a sequence of characters; *)
(* a trie node is named by its path from the root (the root is <<>>), and   *)
(* an optional node (failure) is a sequence of no or one node.              *)
(***************************************************************************)
MaxPatternLen == 2   \* entity names have 1..MaxPatternLen characters
MaxEntities == 2     \* find_references gets 1..MaxEntities entities
MaxTextLen == 3      \* documents have 0..MaxTextLen characters

Chars == {"a", "b", "A"}
Strings(lo, hi) == UNION {[1..k -> Chars] : k \in lo..hi}

\* str.lower on the characters of the model
LowerChar(c) == IF c = "A" THEN "a" ELSE c
lower(str) == [k \in 1..Len(str) |-> LowerChar(str[k])]

Root == <<>>
AhoCorasickNode == [children |-> <<>>, failure |-> <<>>, output |-> <<>>]

\* `char in node.children`
HasChild(tr, nd, char) == \E k \in 1..Len(tr[nd].children) : tr[nd].children[k] = char
\* `node.children[char]`
Child(nd, char) == Append(nd, char)

\* The walk of _build_trie for one pattern, from its k-th character on.
RECURSIVE AddPattern(_, _, _, _)
AddPattern(tr, nd, pattern, k) ==
    IF k > Len(pattern)
    THEN [tr EXCEPT ![nd].output = Append(@, pattern)]
    ELSE LET char == pattern[k]
             tr2 == IF ~HasChild(tr, nd, char)
                    THEN [tr EXCEPT ![nd].children = Append(@, char)]
                         @@ (Child(nd, char) :> AhoCorasickNode)
                    ELSE tr
         IN AddPattern(tr2, Child(nd, char), pattern, k + 1)

RECURSIVE _build_trie(_, _)
_build_trie(tr, pats) ==
    IF pats = <<>> THEN tr
    ELSE IF Head(pats) = <<>> THEN _build_trie(tr, Tail(pats))
    ELSE _build_trie(AddPattern(tr, Root, Head(pats), 1), Tail(pats))

\* `while failure_node and char not in failure_node.children`
RECURSIVE FindFailure(_, _, _)
FindFailure(tr, failure_node, char) ==
    IF failure_node # <<>> /\ ~HasChild(tr, failure_node[1], char)
    THEN FindFailure(tr, tr[failure_node[1]].failure, char)
    ELSE failure_node

\* The body of `for char, child in current.children.items()` for one child:
\* its failure link, and the outputs of the failure node merged into its own.
LinkChild(tr, current, char) ==
    LET child == Child(current, char)
        failure_node == FindFailure(tr, tr[current].failure, char)
        failure == IF failure_node # <<>>
                   THEN Child(failure_node[1], char)
                   ELSE Root
    IN [tr EXCEPT ![child].failure = <<failure>>,
                  ![child].output = @ \o tr[failure].output]

RECURSIVE LinkChildren(_, _, _)
LinkChildren(tr, current, k) ==
    IF k > Len(tr[current].children) THEN tr
    ELSE LinkChildren(LinkChild(tr, current, tr[current].children[k]), current, k + 1)

\* 1 + the number of line breaks before the 0-based position start
RECURSIVE line_number(_, _)
line_number(str, start) ==
    IF start <= 0 THEN 1
    ELSE line_number(str, start - 1) + (IF str[start] = "\n" THEN 1 ELSE 0)

Match(pattern, start, end, line) ==
    [pattern |-> pattern, start |-> start, end |-> end, line_number |-> line]

\* `while node != self.root and char not in node.children: node = node.failure`
RECURSIVE Follow(_, _, _)
Follow(tr, nd, char) ==
    IF nd # Root /\ ~HasChild(tr, nd, char)
    THEN Follow(tr, tr[nd].failure[1], char)
    ELSE nd

\* The matches reported at 0-based index i for the outputs of a node.
NewMatches(output, str, i) ==
    [k \in 1..Len(output) |->
        Match(output[k], i - Len(output[k]) + 1, i + 1,
              line_number(str, i - Len(output[k]) + 1))]

\* search_by_pattern: the matches of each pattern that has any, in order.
RECURSIVE MatchesOf(_, _)
MatchesOf(ms, pattern) ==
    IF ms = <<>> THEN <<>>
    ELSE IF Head(ms).pattern = pattern THEN <<Head(ms)>> \o MatchesOf(Tail(ms), pattern)
    ELSE MatchesOf(Tail(ms), pattern)

search_by_pattern(ms) ==
    [pattern \in {ms[k].pattern : k \in 1..Len(ms)} |-> MatchesOf(ms, pattern)]

\* The orders in which list(entities) can enumerate a set.
Orders(set) ==
    {o \in [1..Cardinality(set) -> set] : \A x \in set : \E k \in DOMAIN o : o[k] = x}

ACIdle ==
    /\ entities = {}
    /\ doc_content = <<>>
    /\ patterns = <<>>
    /\ trie = (Root :> AhoCorasickNode)
    /\ queue = <<>>
    /\ text = <<>>
    /\ pos = 0
    /\ node = Root
    /\ matches = <<>>
    /\ ac_pc = "idle"
    /\ ac_ret = NoResult

\* find_references is called with a set of entities and a document;
\* AhoCorasick.__init__ folds the patterns to lower case.
ACInit ==
    /\ entities \in {E \in SUBSET Strings(1, MaxPatternLen) :
                        Cardinality(E) \in 1..MaxEntities}
    /\ doc_content \in Strings(0, MaxTextLen)
    /\ \E order \in Orders(entities) :
          patterns = [k \in DOMAIN order |-> lower(order[k])]
    /\ trie = (Root :> AhoCorasickNode)
    /\ queue = <<>>
    /\ text = <<>>
    /\ pos = 0
    /\ node = Root
    /\ matches = <<>>
    /\ ac_pc = "build_trie"
    /\ ac_ret = NoResult

BuildTrie ==
    /\ ac_pc = "build_trie"
    /\ trie' = _build_trie(trie, patterns)
    /\ ac_pc' = "failure_links"
    /\ UNCHANGED <<entities, doc_content, patterns, queue, text, pos, node,
                   matches, ac_ret, semVars, docVars, prioVars, simVars, comVars, anaVars, httpVars, snapVars, llmVars, updVars, e2eVars, repoVars, xrefVars, zsVars, mkVars, ptVars>>

\* _build_failure_links up to the BFS loop: the nodes of level 1 fail to the root.
FailureLinksStart ==
    /\ ac_pc = "failure_links"
    /\ trie' = [nd \in DOMAIN trie |->
                  IF Len(nd) = 1 THEN [trie[nd] EXCEPT !.failure = <<Root>>]
                  ELSE trie[nd]]
    /\ queue' = [k \in 1..Len(trie[Root].children) |->
                   Child(Root, trie[Root].children[k])]
    /\ ac_pc' = "bfs"
    /\ UNCHANGED <<entities, doc_content, patterns, text, pos, node, matches,
                   ac_ret, semVars, docVars, prioVars, simVars, comVars, anaVars, httpVars, snapVars, llmVars, updVars, e2eVars, repoVars, xrefVars, zsVars, mkVars, ptVars>>

\* One round of `while queue`.
FailureLinksStep ==
    /\ ac_pc = "bfs" /\ queue # <<>>
    /\ LET current == Head(queue)
       IN /\ queue' = Tail(queue) \o [k \in 1..Len(trie[current].children) |->
                                         Child(current, trie[current].children[k])]
          /\ trie' = LinkChildren(trie, current, 1)
    /\ UNCHANGED <<entities, doc_content, patterns, text, pos, node, matches,
                   ac_pc, ac_ret, semVars, docVars, prioVars, simVars, comVars, anaVars, httpVars, snapVars, llmVars, updVars, e2eVars, repoVars, xrefVars, zsVars, mkVars, ptVars>>

\* search up to its loop: the text is folded to lower case.
SearchStart ==
    /\ ac_pc = "bfs" /\ queue = <<>>
    /\ text' = lower(doc_content)
    /\ matches' = <<>>
    /\ node' = Root
    /\ pos' = 0
    /\ ac_pc' = "search"
    /\ UNCHANGED <<entities, doc_content, patterns, trie, queue, ac_ret, semVars, docVars, prioVars, simVars, comVars, anaVars, httpVars, snapVars, llmVars, updVars, e2eVars, repoVars, xrefVars, zsVars, mkVars, ptVars>>

\* One round of `for i, char in enumerate(text)`.
SearchStep ==
    /\ ac_pc = "search" /\ pos < Len(text)
    /\ LET char == text[pos + 1]
           nd == Follow(trie, node, char)
           next == IF HasChild(trie, nd, char) THEN Child(nd, char) ELSE nd
       IN /\ node' = next
          /\ matches' = matches \o NewMatches(trie[next].output, text, pos)
    /\ pos' = pos + 1
    /\ UNCHANGED <<entities, doc_content, patterns, trie, queue, text, ac_pc,
                   ac_ret, semVars, docVars, prioVars, simVars, comVars, anaVars, httpVars, snapVars, llmVars, updVars, e2eVars, repoVars, xrefVars, zsVars, mkVars, ptVars>>

\* search returns and search_by_pattern groups its matches.
SearchReturn ==
    /\ ac_pc = "search" /\ pos = Len(text)
    /\ ac_ret' = [returned |-> TRUE, matches |-> matches,
                  by_pattern |-> search_by_pattern(matches)]
    /\ ac_pc' = "done"
    /\ UNCHANGED <<entities, doc_content, patterns, trie, queue, text, pos, node,
                   matches, semVars, docVars, prioVars, simVars, comVars, anaVars, httpVars, snapVars, llmVars, updVars, e2eVars, repoVars, xrefVars, zsVars, mkVars, ptVars>>

ACNext ==
    \/ BuildTrie
    \/ FailureLinksStart
    \/ FailureLinksStep
    \/ SearchStart
    \/ SearchStep
    \/ SearchReturn

(***************************************************************************)
(* update_docs_hotpath.py: append_documentation.  A text is a sequence of   *)
(* characters: "#", " ", "\n", and words (an entity name, a title, the      *)
(* *Source* line, a word of prose), each word standing for its characters,  *)
(* none of which is "#" or white space.  Positions are 0-based.             *)
(***************************************************************************)
MaxBlocks == 2       \* an existing doc file is made of 0..MaxBlocks blocks
MaxSections == 2     \* append_documentation gets 1..MaxSections sections
MaxWrites == 3       \* append_documentation is called up to MaxWrites times

SetMin(S) == CHOOSE x \in S : \A y \in S : x <= y
SetMax(S) == CHOOSE x \in S : \A y \in S : x >= y

Slice(str, a, b) == SubSeq(str, a + 1, b)      \* str[a:b]
StartsWithAt(str, p, pre) ==
    p + Len(pre) <= Len(str) /\ SubSeq(str, p + 1, p + Len(pre)) = pre

IsSpace(c) == c \in {" ", "\n"}                \* \s
\* re.IGNORECASE on the words of the model
Fold(w) == IF w = "Foo" THEN "foo" ELSE w

\* The end of the longest run of "#" (of white space) that starts at p.
HashRunEnd(str, p) ==
    CHOOSE q \in p..Len(str) :
        /\ \A k \in (p + 1)..q : str[k] = "#"
        /\ q = Len(str) \/ str[q + 1] # "#"
SpaceRunEnd(str, p) ==
    CHOOSE q \in p..Len(str) :
        /\ \A k \in (p + 1)..q : IsSpace(str[k])
        /\ q = Len(str) \/ ~IsSpace(str[q + 1])

NoMatch == [ok |-> FALSE]

\* (###+)\s+ENTITY\s*\n(.*?)(?=\n##|\n###|\Z) tried at p0, for a match that
\* starts at start.  The greedy ###+ and \s+ take their whole runs (after a
\* shorter one comes "#" or white space, not \s or the entity); the greedy
\* \s*\n ends at the last line break of the run after the entity; the lazy
\* (.*?) ends at the first place where "\n##" or the end of the text follows.
SectionMatchFrom(str, entity, start, p0) ==
    LET h == HashRunEnd(str, p0)
        w == SpaceRunEnd(str, h)
    IN IF h - p0 < 3 \/ w = h \/ w >= Len(str) THEN NoMatch
       ELSE IF Fold(str[w + 1]) # Fold(entity) THEN NoMatch
       ELSE LET r == SpaceRunEnd(str, w + 1)
                breaks == {k \in (w + 2)..r : str[k] = "\n"}
            IN IF breaks = {} THEN NoMatch
               ELSE LET body == SetMax(breaks)
                        end == SetMin({q \in body..Len(str) :
                                         \/ q = Len(str)
                                         \/ StartsWithAt(str, q, <<"\n", "#", "#">>)})
                    IN [ok |-> TRUE, start |-> start, end |-> end,
                        heading_level |-> h - p0]

\* (^|\n) at start: ^ first (only at 0), then a line break.
SectionMatchAt(str, entity, start) ==
    LET by_start == IF start = 0 THEN SectionMatchFrom(str, entity, 0, 0) ELSE NoMatch
        by_break == IF start < Len(str) /\ str[start + 1] = "\n"
                    THEN SectionMatchFrom(str, entity, start, start + 1)
                    ELSE NoMatch
    IN IF by_start.ok THEN by_start ELSE by_break

\* re.search(pattern, new_content, re.IGNORECASE | re.DOTALL): the leftmost match
SearchSection(str, entity) ==
    LET hits == {st \in 0..Len(str) : SectionMatchAt(str, entity, st).ok}
    IN IF hits = {} THEN NoMatch ELSE SectionMatchAt(str, entity, SetMin(hits))

ApiReference == <<"#", "#", " ", "API", " ", "Reference">>

\* re.search(r"## API Reference\s*\n", new_content).end(), or -1 without a match
ApiReferenceEnd(str) ==
    LET EndAt(p) ==
            LET r == SpaceRunEnd(str, p + Len(ApiReference))
                breaks == {k \in (p + Len(ApiReference) + 1)..r : str[k] = "\n"}
            IN IF breaks = {} THEN -1 ELSE SetMax(breaks)
        hits == {p \in 0..Len(str) : StartsWithAt(str, p, ApiReference) /\ EndAt(p) >= 0}
    IN IF hits = {} THEN -1 ELSE EndAt(SetMin(hits))

\* `sub in str`
Contains(str, sub) == \E p \in 0..Len(str) : StartsWithAt(str, p, sub)

\* str.replace(old, new): every occurrence, from the left, without overlap
RECURSIVE Replace(_, _, _)
Replace(str, old, new) ==
    LET hits == {p \in 0..Len(str) : StartsWithAt(str, p, old)}
    IN IF hits = {} THEN str
       ELSE LET p == SetMin(hits)
            IN Slice(str, 0, p) \o new
               \o Replace(Slice(str, p + Len(old), Len(str)), old, new)

Hashes(n) == [k \in 1..n |-> "#"]
SourceLine(file) == <<"*Source:", " ", file, "*">>

\* "### {entity}\n\n*Source: `{file}`*\n\n{content}"
NewSection(section) ==
    Hashes(3) \o <<" ", section.entity, "\n", "\n">>
    \o SourceLine(section.file) \o <<"\n", "\n">> \o section.content

\* "\n{heading_level} {entity}\n\n*Source: `{file}`*\n\n{content}"
Replacement(heading_level, section) ==
    <<"\n">> \o Hashes(heading_level) \o <<" ", section.entity, "\n", "\n">>
    \o SourceLine(section.file) \o <<"\n", "\n">> \o section.content

\* The body of `for section in sections`.
ApplySection(new_content, section) ==
    LET match == SearchSection(new_content, section.entity)
    IN IF match.ok
       THEN Replace(new_content, Slice(new_content, match.start, match.end),
                    Replacement(match.heading_level, section))
       ELSE LET insert_pos == ApiReferenceEnd(new_content)
            IN IF insert_pos >= 0
               THEN Slice(new_content, 0, insert_pos)
                    \o <<"\n">> \o NewSection(section) \o <<"\n", "\n">>
                    \o Slice(new_content, insert_pos, Len(new_content))
               ELSE new_content \o <<"\n">> \o NewSection(section) \o <<"\n", "\n">>

RECURSIVE ApplySections(_, _)
ApplySections(new_content, secs) ==
    IF secs = <<>> THEN new_content
    ELSE ApplySections(ApplySection(new_content, Head(secs)), Tail(secs))

Title == "Api"
\* The text append_documentation writes for the file d and the sections secs.
append_documentation(d, secs) ==
    LET read == IF d.exists THEN d.content ELSE <<"#", " ", Title, "\n", "\n">>
        existing == IF ~Contains(read, ApiReference)
                    THEN read \o <<"\n", "\n">> \o ApiReference \o <<"\n", "\n">>
                    ELSE read
    IN ApplySections(existing, secs)

\* The doc files the model starts from: no file, or a file made of blocks (a
\* title, the API Reference heading, sections of "foo" at two heading levels,
\* another section, a line of prose).
Blocks ==
    {<<"#", " ", Title, "\n", "\n">>,
     ApiReference \o <<"\n", "\n">>,
     <<"#", "#", "#", " ", "foo", "\n", "\n", "old", "\n", "\n">>,
     <<"#", "#", "#", "#", " ", "Foo", "\n", "old">>,
     <<"#", "#", " ", "Usage", "\n", "\n", "prose", "\n">>,
     <<"prose", "\n">>}

RECURSIVE Concat(_)
Concat(seqs) == IF seqs = <<>> THEN <<>> ELSE Head(seqs) \o Concat(Tail(seqs))

DocTexts == {Concat(bs) : bs \in UNION {[1..k -> Blocks] : k \in 0..MaxBlocks}}
NoFile == [exists |-> FALSE, content |-> <<>>]
DocFiles == {NoFile} \cup {[exists |-> TRUE, content |-> c] : c \in DocTexts}

\* The sections: generated text is prose, prose with a heading inside, or (as
\* the prompt template asks for) text that starts with "## {entity_name}".
Contents(entity) ==
    {<<"text">>,
     <<"text", "\n", "#", "#", " ", "Usage", "\n", "more">>,
     <<"#", "#", " ", entity, "\n", "\n", "text">>}
Sections ==
    {[entity |-> e, file |-> "a.py", content |-> c] :
        e \in {"foo"}, c \in Contents("foo")}
    \cup {[entity |-> "bar", file |-> "a.py", content |-> <<"text">>]}
SectionLists == UNION {[1..k -> Sections] : k \in 1..MaxSections}

DocIdle ==
    /\ doc = NoFile
    /\ sections = <<>>
    /\ written = <<>>

DocInit ==
    /\ doc \in DocFiles
    /\ sections \in SectionLists
    /\ written = <<>>

\* One call append_documentation(doc_file, sections), as main makes it.
AppendDocumentation ==
    /\ sections # <<>>
    /\ Len(written) < MaxWrites
    /\ LET new_content == append_documentation(doc, sections)
       IN /\ doc' = [exists |-> TRUE, content |-> new_content]
          /\ written' = Append(written, new_content)
    /\ UNCHANGED <<sections, semVars, acVars, prioVars, simVars, comVars, anaVars, httpVars, snapVars, llmVars, updVars, e2eVars, repoVars, xrefVars, zsVars, mkVars, ptVars>>

DocNext == AppendDocumentation

(***************************************************************************)
(* doc_analyzer.py: prioritize_documentation, on an AnalysisResult built    *)
(* as analyze_changes builds it.  Entity names and file paths are sequences *)
(* of characters, doc paths are strings.  A float score is kept exact as    *)
(* the fraction num / den with den = 2 * max(len(entities), 1).             *)
(***************************************************************************)
MaxMentions == 2     \* an entity is mentioned 1..MaxMentions times in a doc
MaxRuns == 2         \* prioritize_documentation is run up to MaxRuns times

EntityNames == {<<"f">>, <<"g">>}
CodePaths == <<(<<"f", ".", "p", "y">>), (<<"f", "g", ".", "p", "y">>)>>
DocPaths == <<"a.md", "b.md">>                  \* in ascending order
DocRank(d) == CHOOSE k \in DOMAIN DocPaths : DocPaths[k] = d

severity_scores ==
    [t \in ChangeTypes |->
        CASE t = "identical" -> 0
          [] t = "refactor" -> 0
          [] t = "minor" -> 1
          [] t = "major" -> 3
          [] t = "rewrite" -> 5]

\* The elements of a set in the order a run iterates them: the order of the
\* run's hash values, given as a sequence of all possible elements.
RECURSIVE Iterate(_, _)
Iterate(set, order) ==
    IF order = <<>> THEN <<>>
    ELSE (IF Head(order) \in set THEN <<Head(order)>> ELSE <<>>)
         \o Iterate(set, Tail(order))

\* path.split('/')[-1] with '.py', '.js' (and '.ts') removed
file_basename(path) ==
    Replace(Replace(Replace(path, <<".", "p", "y">>, <<>>),
                    <<".", "j", "s">>, <<>>),
            <<".", "t", "s">>, <<>>)

\* analyze_changes: is the entity taken to be one of the changed file?
EntityOfFile(entity, path) ==
    \/ Contains(lower(path), lower(entity))
    \/ Contains(lower(entity),
                Replace(Replace(path, <<".", "p", "y">>, <<>>), <<".", "j", "s">>, <<>>))

\* Method 2 of prioritize_documentation
NamedLikeFile(entity, path) ==
    \/ Contains(lower(entity), lower(file_basename(path)))
    \/ Contains(lower(file_basename(path)), lower(entity))

NoImpacts == [raised |-> FALSE, docs |-> <<>>]

IndexOfDoc(impacts, doc_path) ==
    IF \E k \in 1..Len(impacts) : impacts[k].doc_path = doc_path
    THEN CHOOSE k \in 1..Len(impacts) : impacts[k].doc_path = doc_path
    ELSE 0

\* The body of `for doc_path in analysis.cross_refs[entity]`.
ImpactDoc(acc, an, cf, entity, doc_path) ==
    LET known == IndexOfDoc(acc.docs, doc_path) # 0
        docs1 == IF known THEN acc.docs
                 ELSE Append(acc.docs,
                             [doc_path |-> doc_path, entities |-> {},
                              severity_sum |-> 0, mention_counts |-> <<>>,
                              reasons |-> <<>>])
        k == IndexOfDoc(docs1, doc_path)
        listed == /\ doc_path \in DOMAIN an.references_by_doc
                  /\ entity \in DOMAIN an.references_by_doc[doc_path]
        \* len() of an int raises TypeError
        raises == listed /\ an.references_as = "counts"
        mention_count == IF listed THEN an.references_by_doc[doc_path][entity] ELSE 0
        old == docs1[k]
        new == [old EXCEPT
                  !.entities = @ \cup {entity},
                  !.severity_sum = @ + severity_scores[cf.change_type],
                  !.mention_counts =
                      IF \E i \in 1..Len(@) : @[i].entity = entity
                      THEN [i \in 1..Len(@) |->
                              IF @[i].entity = entity
                              THEN [entity |-> entity, count |-> mention_count]
                              ELSE @[i]]
                      ELSE Append(@, [entity |-> entity, count |-> mention_count]),
                  !.reasons = Append(@, <<entity, cf.change_type>>)]
    IN IF acc.raised THEN acc
       ELSE IF raises THEN [raised |-> TRUE, docs |-> docs1]
       ELSE [raised |-> FALSE, docs |-> [docs1 EXCEPT ![k] = new]]

RECURSIVE ImpactDocs(_, _, _, _, _)
ImpactDocs(acc, an, cf, entity, doc_seq) ==
    IF doc_seq = <<>> THEN acc
    ELSE ImpactDocs(ImpactDoc(acc, an, cf, entity, Head(doc_seq)),
                    an, cf, entity, Tail(doc_seq))

\* `for entity in entities_in_file`
RECURSIVE ImpactEntities(_, _, _, _, _)
ImpactEntities(acc, an, cf, entity_seq, doc_order) ==
    IF entity_seq = <<>> THEN acc
    ELSE LET entity == Head(entity_seq)
             acc2 == IF entity \in DOMAIN an.cross_refs
                     THEN ImpactDocs(acc, an, cf, entity,
                                     Iterate(an.cross_refs[entity], doc_order))
                     ELSE acc
         IN ImpactEntities(acc2, an, cf, Tail(entity_seq), doc_order)

\* `for cf in analysis.changed_files`
RECURSIVE ImpactFiles(_, _, _, _, _)
ImpactFiles(acc, an, files, entity_order, doc_order) ==
    IF files = <<>> THEN acc
    ELSE LET cf == Head(files)
             entities_in_file ==
                 cf.entities
                 \cup {e \in an.all_entities : NamedLikeFile(e, cf.path)}
             acc2 == IF ~cf.needs_doc_update THEN acc
                     ELSE ImpactEntities(acc, an, cf,
                                         Iterate(entities_in_file, entity_order),
                                         doc_order)
         IN ImpactFiles(acc2, an, Tail(files), entity_order, doc_order)

RECURSIVE SumCounts(_)
SumCounts(mention_counts) ==
    IF mention_counts = <<>> THEN 0
    ELSE Head(mention_counts).count + SumCounts(Tail(mention_counts))

\* max over the entities of the size of the entity's community
community_size_of(an, members) ==
    LET sizes == {Len(an.communities[an.community_map[e]]) :
                     e \in {x \in members :
                               /\ x \in DOMAIN an.community_map
                               /\ an.community_map[x] <= Len(an.communities)}}
    IN IF sizes = {} THEN 0 ELSE SetMax(sizes)

\* score > 5 with >= instead
PriorityOfLax(score) ==
    IF score.num >= 5 * score.den THEN "HIGH"
    ELSE IF score.num >= 2 * score.den THEN "MEDIUM"
    ELSE "LOW"

PriorityOf(score) ==
    IF score.num > 5 * score.den THEN "HIGH"
    ELSE IF score.num >= 2 * score.den THEN "MEDIUM"
    ELSE "LOW"

\* (avg_severity * 2) + (total_mentions * 1.5) + (community_size * 0.5),
\* with avg_severity = severity_sum / n
Score(severity_sum, n, total_mentions, community_size) ==
    [num |-> 4 * severity_sum + 3 * total_mentions * n + community_size * n,
     den |-> 2 * n]

ScoreLess(s1, s2) == s1.num * s2.den < s2.num * s1.den

\* The ImpactedDoc of one entry of doc_impacts.
ImpactedDoc(an, impact_data, entity_order) ==
    LET changed_entities == Iterate(impact_data.entities, entity_order)
        community_size == community_size_of(an, impact_data.entities)
        n == Max2(Len(changed_entities), 1)
        total_mentions == SumCounts(impact_data.mention_counts)
        score == Score(impact_data.severity_sum, n, total_mentions, community_size)
    IN [doc_path |-> impact_data.doc_path,
        priority |-> PriorityOf(score),
        score |-> score,
        reasons |-> impact_data.reasons,
        changed_entities |-> changed_entities,
        mention_counts |-> impact_data.mention_counts,
        line_numbers |-> [k \in 1..Len(impact_data.mention_counts) |->
                            [entity |-> impact_data.mention_counts[k].entity,
                             lines |-> [i \in 1..impact_data.mention_counts[k].count |-> i]]],
        community_size |-> community_size]

\* list.sort(key=lambda d: d.score, reverse=True): stable, docs of equal score
\* keep their order.
RECURSIVE InsertByScore(_, _)
InsertByScore(sorted, d) ==
    IF sorted = <<>> THEN <<d>>
    ELSE IF ScoreLess(sorted[Len(sorted)].score, d.score)
    THEN Append(InsertByScore(SubSeq(sorted, 1, Len(sorted) - 1), d),
                sorted[Len(sorted)])
    ELSE Append(sorted, d)

RECURSIVE SortByScore(_)
SortByScore(docs) ==
    IF docs = <<>> THEN <<>>
    ELSE InsertByScore(SortByScore(SubSeq(docs, 1, Len(docs) - 1)), docs[Len(docs)])

\* What one run returns (or that it raised), under the run's iteration orders.
prioritize_documentation(an, entity_order, doc_order) ==
    LET doc_impacts == ImpactFiles(NoImpacts, an, an.changed_files,
                                   entity_order, doc_order)
    IN IF doc_impacts.raised THEN [raised |-> TRUE, impacted_docs |-> <<>>]
       ELSE [raised |-> FALSE,
             impacted_docs |->
                 SortByScore([k \in 1..Len(doc_impacts.docs) |->
                                ImpactedDoc(an, doc_impacts.docs[k], entity_order)])]

\* analyze_changes: a ChangedFile of a change record, with the entities the
\* heuristic gives it.
ChangedFile(path, change_type, cross_refs) ==
    [path |-> path,
     change_type |-> change_type,
     needs_doc_update |-> should_update_documentation([change_type |-> change_type]),
     entities |-> {e \in DOMAIN cross_refs : EntityOfFile(e, path)}]

\* node_id = f"{path}::${fn}" of analyze_communities, as a string
node_id(path, fn) == path \o <<":", ":", "$">> \o fn

\* What analyze_communities may return for a repository whose file f.js
\* defines f and g: nothing, one community, or two.
JsPath == <<"f", ".", "j", "s">>
FileScopeName == <<"_", "_", "f", "i", "l", "e", "_", "_">>
NodeCommunityLists ==
    {<<>>,
     <<(<<node_id(JsPath, FileScopeName), node_id(JsPath, <<"f">>),
          node_id(JsPath, <<"g">>)>>)>>,
     <<(<<node_id(JsPath, FileScopeName), node_id(JsPath, <<"f">>)>>),
       (<<node_id(JsPath, <<"g">>)>>)>>}

\* The communities of the model, and the community_map analyze_changes builds:
\* the index of the last community that holds the member.
CommunityLists ==
    {<<>>,
     <<(<<(<<"f">>), (<<"x">>), (<<"y">>)>>)>>,
     <<(<<(<<"g">>), (<<"x">>)>>), (<<(<<"f">>), (<<"g">>), (<<"x">>), (<<"y">>)>>)>>}
CommunityMap(communities) ==
    LET members == UNION {{communities[i][j] : j \in 1..Len(communities[i])} :
                             i \in 1..Len(communities)}
    IN [mb \in members |->
          SetMax({i \in 1..Len(communities) :
                     \E j \in 1..Len(communities[i]) : communities[i][j] = mb})]

DocSets == {{DocPaths[1]}, {DocPaths[1], DocPaths[2]}}
CrossRefs == UNION {[E -> DocSets] : E \in SUBSET EntityNames}
ChangeTypeLists ==
    UNION {[1..k -> {"refactor", "minor", "major", "rewrite"}] : k \in 1..Len(CodePaths)}

PrioIdle ==
    /\ analysis = NoResult
    /\ prio_runs = <<>>

\* references_by_doc holds a list of matches per doc and entity (as
\* AnalysisResult declares it) or their number (as analyze_cross_references
\* returns it); the docs after the 20th are missing from it.
PrioInit ==
    /\ \E cross_refs \in CrossRefs, types \in ChangeTypeLists,
          communities \in CommunityLists \cup NodeCommunityLists,
          mentions \in [1..Len(DocPaths) -> 0..MaxMentions],
          references_as \in {"matches", "counts"} :
          analysis =
             [changed_files |->
                 [k \in 1..Len(types) |-> ChangedFile(CodePaths[k], types[k], cross_refs)],
              all_entities |-> {},
              cross_refs |-> cross_refs,
              references_as |-> references_as,
              references_by_doc |->
                 [d \in {DocPaths[k] : k \in {i \in 1..Len(DocPaths) : mentions[i] > 0}} |->
                    [e \in {x \in DOMAIN cross_refs : d \in cross_refs[x]} |->
                       mentions[DocRank(d)]]],
              communities |-> communities,
              community_map |-> CommunityMap(communities)]
    /\ prio_runs = <<>>

\* One run of prioritize_documentation(analysis).
Prioritize ==
    /\ analysis # NoResult
    /\ Len(prio_runs) < MaxRuns
    /\ \E entity_order \in Orders(EntityNames),
          doc_order \in Orders({DocPaths[k] : k \in 1..Len(DocPaths)}) :
          prio_runs' = Append(prio_runs,
                              prioritize_documentation(analysis, entity_order, doc_order))
    /\ UNCHANGED <<analysis, semVars, acVars, docVars, simVars, comVars, anaVars, httpVars, snapVars, llmVars, updVars, e2eVars, repoVars, xrefVars, zsVars, mkVars, ptVars>>

PrioNext == Prioritize

(***************************************************************************)
(* pipeline.py: analyze_similarity, from the MinHash signatures on.  The    *)
(* file ids are listed in the order add_repo inserts them (code, then       *)
(* docs), which here is also their ascending order as strings.              *)
(***************************************************************************)
NumPerm == 2         \* minhash_num_perm of the model: the length of a signature
MaxHash == 1         \* the rows of a signature are in 0..MaxHash
SmallMaxPairs == 1   \* a similarity_max_pairs setting that truncates

FileIds == <<"code:x.js", "docs:a.md", "docs:b.md">>
IdRank(fid) == CHOOSE k \in DOMAIN FileIds : FileIds[k] = fid
KindOf(fid) == IF IdRank(fid) = 1 THEN "code" ELSE "docs"
DefaultMaxPairs == 50000

\* key = (bidx, tuple(sig[start:end])) of file fid and band bidx (0-based), or
\* no key when the band starts behind the signature
BandKey(sig, bidx, rows_per_band) ==
    LET start == bidx * rows_per_band
        end == Min2(start + rows_per_band, Len(sig))
    IN IF start >= end THEN <<>> ELSE <<bidx, SubSeq(sig, start + 1, end)>>

\* Every pair of files a candidate, whatever the buckets.
_lsh_candidates_all_pairs(sigs, num_bands, rows_per_band) ==
    {pr \in (DOMAIN sigs) \X (DOMAIN sigs) : IdRank(pr[1]) < IdRank(pr[2])}

\* _lsh_candidates: the pairs (a, b), a < b, of files that share a bucket
_lsh_candidates(sigs, num_bands, rows_per_band) ==
    LET k == Len(sigs[FileIds[1]])
        rows == IF num_bands * rows_per_band > k
                THEN Max2(1, k \div Max2(1, num_bands))
                ELSE rows_per_band
        \* a file leaves the band loop at the first band without a key
        Keyed(fid, bidx) == \A b \in 0..bidx : BandKey(sigs[fid], b, rows) # <<>>
    IN IF k = 0 THEN {}
       ELSE {<<FileIds[i], FileIds[j]>> : i, j \in DOMAIN FileIds} \cap
            {pr \in (DOMAIN sigs) \X (DOMAIN sigs) :
                /\ IdRank(pr[1]) < IdRank(pr[2])
                /\ \E bidx \in 0..(num_bands - 1) :
                      /\ Keyed(pr[1], bidx) /\ Keyed(pr[2], bidx)
                      /\ BandKey(sigs[pr[1]], bidx, rows) = BandKey(sigs[pr[2]], bidx, rows)}

\* _sig_similarity as the number of equal rows (over the length of sig_a)
_sig_similarity(sig_a, sig_b) ==
    IF sig_a = <<>> \/ sig_b = <<>> \/ Len(sig_a) # Len(sig_b) THEN 0
    ELSE Cardinality({i \in 1..Len(sig_a) : sig_a[i] = sig_b[i]})

\* `for a_id, b_id in candidates`: the edges, in the order of the iteration
RECURSIVE Edges(_, _, _)
Edges(pairs, sigs, st) ==
    IF pairs = <<>> THEN <<>>
    ELSE LET a_id == Head(pairs)[1]
             b_id == Head(pairs)[2]
             eq == _sig_similarity(sigs[a_id], sigs[b_id])
             skip == st.similarity_cross_only /\ KindOf(a_id) = KindOf(b_id)
         IN (IF ~skip /\ 1000 * eq >= st.similarity_threshold * Len(sigs[a_id])
             THEN <<(<<a_id, b_id, eq>>)>> ELSE <<>>)
            \o Edges(Tail(pairs), sigs, st)

\* adj[n]: the neighbours of n in the order the edges were appended
RECURSIVE Adj(_, _)
Adj(edges, n) ==
    IF edges = <<>> THEN <<>>
    ELSE (IF Head(edges)[1] = n THEN <<Head(edges)[2]>>
          ELSE IF Head(edges)[2] = n THEN <<Head(edges)[1]>>
          ELSE <<>>) \o Adj(Tail(edges), n)

SeqToSet(seq) == {seq[k] : k \in 1..Len(seq)}

Take(seq, n) == SubSeq(seq, 1, Min2(n, Len(seq)))

\* The BFS from a node: comp in the order of dq.popleft().
RECURSIVE Bfs(_, _, _, _)
Bfs(dq, visited, comp, edges) ==
    IF dq = <<>> THEN [comp |-> comp, visited |-> visited]
    ELSE LET cur == Head(dq)
             fresh == SelectSeq(Adj(edges, cur), LAMBDA nb : nb \notin visited)
         IN Bfs(Tail(dq) \o fresh, visited \cup SeqToSet(fresh),
                Append(comp, cur), edges)

RECURSIVE Components(_, _, _, _)
Components(ids, visited, edges, min_size) ==
    IF ids = <<>> THEN <<>>
    ELSE IF Head(ids) \in visited THEN Components(Tail(ids), visited, edges, min_size)
    ELSE LET r == Bfs(<<Head(ids)>>, visited \cup {Head(ids)}, <<>>, edges)
         IN (IF Len(r.comp) >= Max2(1, min_size) THEN <<r.comp>> ELSE <<>>)
            \o Components(Tail(ids), r.visited, edges, min_size)

\* sorted(edges, key=lambda e: e[2], reverse=True): stable
RECURSIVE SortEdges(_)
SortEdges(edges) ==
    IF edges = <<>> THEN <<>>
    ELSE LET rest == SortEdges(SubSeq(edges, 1, Len(edges) - 1))
             e == edges[Len(edges)]
             before == SelectSeq(rest, LAMBDA x : x[3] >= e[3])
             after == SelectSeq(rest, LAMBDA x : x[3] < e[3])
         IN before \o <<e>> \o after

MaxTopPairs == 20

\* What one run returns: list_order is the order in which list(candidates)
\* lists the candidate set, loop_order the order in which the loop iterates
\* the (truncated) set.
analyze_similarity(sigs, st, list_order, loop_order) ==
    LET all == _lsh_candidates(sigs, st.lsh_num_bands, st.lsh_rows_per_band)
        truncated_pairs == Cardinality(all) > st.similarity_max_pairs
        candidates == IF truncated_pairs
                      THEN SeqToSet(Take(Iterate(all, list_order),
                                         st.similarity_max_pairs))
                      ELSE all
        edges == Edges(Iterate(candidates, loop_order), sigs, st)
    IN [files |-> Cardinality(DOMAIN sigs),
        candidates |-> Cardinality(candidates),
        edges |-> Len(edges),
        communities |-> Components(FileIds, {}, edges, st.min_community_size),
        top_pairs |-> Take(SortEdges(edges), MaxTopPairs),
        truncated_pairs |-> truncated_pairs]

SimSettings ==
    [lsh_num_bands : {1, NumPerm}, lsh_rows_per_band : {1, NumPerm},
     similarity_threshold : {500, 700},
     similarity_max_pairs : {SmallMaxPairs, DefaultMaxPairs},
     similarity_cross_only : BOOLEAN,
     min_community_size : {2, 3}]

AllPairs == {pr \in SeqToSet(FileIds) \X SeqToSet(FileIds) : IdRank(pr[1]) < IdRank(pr[2])}

SimIdle == signatures = <<>> /\ sim_runs = <<>>

SimInit ==
    /\ settings \in SimSettings
    /\ signatures \in [SeqToSet(FileIds) -> [1..NumPerm -> 0..MaxHash]]
    /\ sim_runs = <<>>
    /\ old_files = <<>> /\ new_files = <<>> /\ todo = <<>> /\ changes = <<>>
    /\ stats = <<>> /\ files_analyzed = 0 /\ sem_pc = "idle" /\ sem_ret = NoResult

\* One run of analyze_similarity on the same snapshots and settings.
AnalyzeSimilarity ==
    /\ DOMAIN signatures # {}
    /\ Len(sim_runs) < MaxRuns
    /\ \E list_order \in Orders(AllPairs), loop_order \in Orders(AllPairs) :
          sim_runs' = Append(sim_runs,
                             analyze_similarity(signatures, settings,
                                                list_order, loop_order))
    /\ UNCHANGED <<signatures, semVars, acVars, docVars, prioVars, comVars, anaVars, httpVars, snapVars, llmVars, updVars, e2eVars, repoVars, xrefVars, zsVars, mkVars, ptVars>>

SimNext == AnalyzeSimilarity

(***************************************************************************)
(* pipeline.py: analyze_semantic_diff, from the extracted snapshots on     *)
(***************************************************************************)
CodePath == "a.py"
DocPath == "b.md"
Paths == {CodePath, DocPath}
SortedPaths == <<CodePath, DocPath>>

\* _ext on the paths of the model
_ext(path) ==
    CASE path \in {"a.py", "c.py"} -> ".py"
      [] path \in {"a.js", "x.js"} -> ".js"
      [] path = "b.ts" -> ".ts"
      [] OTHER -> ".md"

LanguageOf(path) ==
    LET ext == _ext(path)
    IN IF ext \in {".py"} THEN "python"
       ELSE IF ext \in {".js", ".jsx"} THEN "javascript"
       ELSE IF ext \in {".ts", ".tsx"} THEN "typescript"
       ELSE NoValue


RECURSIVE SelectPaths(_)
SelectPaths(cs) ==
    IF cs = <<>> THEN <<>>
    ELSE IF Head(cs).needs_doc_update THEN <<Head(cs).path>> \o SelectPaths(Tail(cs))
    ELSE SelectPaths(Tail(cs))

MaxChangesReturned == 100
MaxNeedsDocReturned == 20

\* The new text of a file: one with the new tree, or the old text in another
\* layout when the trees are equal.
NewCodes(t1, t2) ==
    {Code(t2, "")} \cup (IF t1 = t2 THEN {Code(t2, " ")} ELSE {})
DocText == Code(TreeNode("text", LeafValue, <<>>), "")

SemIdle ==
    /\ settings = [tree_edit_distance_threshold |-> DefaultThresholdMinor]
    /\ old_files = <<>>
    /\ new_files = <<>>
    /\ todo = <<>>
    /\ changes = <<>>
    /\ stats = <<>>
    /\ files_analyzed = 0
    /\ sem_pc = "idle"
    /\ sem_ret = NoResult

SemInit ==
    /\ settings \in [tree_edit_distance_threshold :
                        {DefaultThresholdMinor, TunedThresholdMinor}]
    /\ \E tp \in TreePairs :
       \E c1 \in {Code(tp[1], ""), NonUtf8}, c2 \in NewCodes(tp[1], tp[2]) \cup {NonUtf8} :
          /\ old_files = [p \in Paths |-> IF p = CodePath THEN c1 ELSE DocText]
          /\ new_files = [p \in Paths |-> IF p = CodePath THEN c2 ELSE DocText]
    /\ todo = SortedPaths
    /\ changes = <<>>
    /\ stats = [t \in ChangeTypes |-> 0]
    /\ files_analyzed = 0
    /\ sem_pc = "loop"
    /\ sem_ret = NoResult

\* `if not language: continue`
SkipUnsupported ==
    /\ sem_pc = "loop" /\ todo # <<>>
    /\ LanguageOf(Head(todo)) = NoValue
    /\ todo' = Tail(todo)
    /\ UNCHANGED <<settings, old_files, new_files, changes, stats,
                   files_analyzed, sem_pc, sem_ret, acVars, docVars, prioVars, simVars, comVars, anaVars, httpVars, snapVars, llmVars, updVars, e2eVars, repoVars, xrefVars, zsVars, mkVars, ptVars>>

\* `except UnicodeDecodeError: continue`
SkipUndecodable ==
    /\ sem_pc = "loop" /\ todo # <<>>
    /\ LanguageOf(Head(todo)) # NoValue
    /\ NonUtf8 \in {old_files[Head(todo)], new_files[Head(todo)]}
    /\ todo' = Tail(todo)
    /\ UNCHANGED <<settings, old_files, new_files, changes, stats,
                   files_analyzed, sem_pc, sem_ret, acVars, docVars, prioVars, simVars, comVars, anaVars, httpVars, snapVars, llmVars, updVars, e2eVars, repoVars, xrefVars, zsVars, mkVars, ptVars>>

\* `if old_code == new_code: stats["identical"] += 1; continue`
SkipIdentical ==
    /\ sem_pc = "loop" /\ todo # <<>>
    /\ LanguageOf(Head(todo)) # NoValue
    /\ NonUtf8 \notin {old_files[Head(todo)], new_files[Head(todo)]}
    /\ old_files[Head(todo)] = new_files[Head(todo)]
    /\ stats' = [stats EXCEPT !["identical"] = @ + 1]
    /\ todo' = Tail(todo)
    /\ UNCHANGED <<settings, old_files, new_files, changes,
                   files_analyzed, sem_pc, sem_ret, acVars, docVars, prioVars, simVars, comVars, anaVars, httpVars, snapVars, llmVars, updVars, e2eVars, repoVars, xrefVars, zsVars, mkVars, ptVars>>

ChangeRecord(path, language, result) ==
    [path |-> path,
     language |-> language,
     change_type |-> result.change_type,
     distance |-> result.distance,
     normalized_distance |-> result.normalized_distance,
     size_old |-> result.size1,
     size_new |-> result.size2,
     needs_doc_update |-> should_update_documentation(result)]

\* The rest of the loop body; the time limit may end the loop after the file.
AnalyzeFile ==
    /\ sem_pc = "loop" /\ todo # <<>>
    /\ LET path == Head(todo)
           language == LanguageOf(path)
           old_code == old_files[path]
           new_code == new_files[path]
       IN /\ language # NoValue
          /\ NonUtf8 \notin {old_code, new_code}
          /\ old_code # new_code
          /\ LET result == analyze_change(parse(old_code, language),
                                          parse(new_code, language),
                                          threshold_refactor,
                                          settings.tree_edit_distance_threshold,
                                          threshold_major)
             IN /\ stats' = [stats EXCEPT ![result.change_type] = @ + 1]
                /\ changes' = Append(changes, ChangeRecord(path, language, result))
          /\ files_analyzed' = files_analyzed + 1
          /\ \E time_is_up \in BOOLEAN :
                IF time_is_up
                THEN todo' = todo /\ sem_pc' = "return"
                ELSE todo' = Tail(todo) /\ sem_pc' = "loop"
    /\ UNCHANGED <<settings, old_files, new_files, sem_ret, acVars, docVars, prioVars, simVars, comVars, anaVars, httpVars, snapVars, llmVars, updVars, e2eVars, repoVars, xrefVars, zsVars, mkVars, ptVars>>

SemReturn ==
    /\ \/ sem_pc = "loop" /\ todo = <<>>
       \/ sem_pc = "return"
    /\ sem_ret' =
          [files_analyzed |-> files_analyzed,
           files_added |-> Cardinality(DOMAIN new_files \ DOMAIN old_files),
           files_deleted |-> Cardinality(DOMAIN old_files \ DOMAIN new_files),
           changes |-> Take(changes, MaxChangesReturned),
           changes_total |-> Len(changes),
           summary |-> stats,
           needs_doc_update_count |-> Len(SelectPaths(changes)),
           needs_doc_update |-> Take(SelectPaths(changes), MaxNeedsDocReturned)]
    /\ sem_pc' = "done"
    /\ UNCHANGED <<settings, old_files, new_files, todo, changes, stats,
                   files_analyzed, acVars, docVars, prioVars, simVars, comVars, anaVars, httpVars, snapVars, llmVars, updVars, e2eVars, repoVars, xrefVars, zsVars, mkVars, ptVars>>

SemNext ==
    \/ SkipUnsupported
    \/ SkipUndecodable
    \/ SkipIdentical
    \/ AnalyzeFile
    \/ SemReturn


(***************************************************************************)
(* pipeline.py: analyze_communities, from the code files of the tarball on. *)
(* A file is given by what the three regular expressions find in it: the    *)
(* names defined as `function name(`, the names defined as                   *)
(* `const name = (...) =>`, and the other names followed by `(`.            *)
(***************************************************************************)
MaxComFiles == 2        \* code files in the tarball
MaxLabelId == 1         \* Louvain community ids are in 0..MaxLabelId

ComPaths == <<"a.js", "b.ts", "c.py">>            \* in ascending order
FuncNames == <<"f", "g">>                         \* in ascending order
FileScope == "__file__"                           \* sorts before every FuncNames
StopWords == {"if", "for", "while", "switch", "return", "function", "console",
              "new", "catch", "typeof", "await"}
max_iter == 10

EmptyMap == [x \in {} |-> x]
RankIn(seq, x) == CHOOSE k \in DOMAIN seq : seq[k] = x

\* node ids f"{path}::${fn}" as <<path, fn>>, and their order as strings
NodeId(path, fn) == <<path, fn>>
NameRank(fn) == IF fn = FileScope THEN 0 ELSE RankIn(FuncNames, fn)
NodeLess(n, m) ==
    \/ RankIn(ComPaths, n[1]) < RankIn(ComPaths, m[1])
    \/ n[1] = m[1] /\ NameRank(n[2]) < NameRank(m[2])

\* _extract_functions_and_calls_js: _RE_CALL_JS also finds the name in
\* `function name(`; every call goes to the file scope.
_extract_functions_and_calls_js(file) ==
    LET funcs == file.functions \cup file.arrows
    IN [funcs |-> funcs,
        calls |-> [fn \in funcs \cup {FileScope} |->
                      IF fn = FileScope
                      THEN (file.functions \cup file.called) \ StopWords
                      ELSE {}]]

ComFileContents ==
    {[functions |-> fs, arrows |-> ar, called |-> cd] :
        fs \in SUBSET SeqToSet(FuncNames),
        ar \in SUBSET SeqToSet(FuncNames),
        cd \in (SUBSET SeqToSet(FuncNames)) \cup {{"if"}}}

ComFiles ==
    {[path |-> pa, data |-> da] : pa \in SeqToSet(ComPaths),
                                  da \in {c \in ComFileContents : c.functions \cap c.arrows = {}}}

\* the tarballs: up to MaxComFiles files of different paths, in any order
ComTarballs ==
    {<<f>> : f \in ComFiles} \cup
    {t \in ComFiles \X ComFiles : t[1].path # t[2].path}

ComIdle ==
    /\ louvain_installed = FALSE
    /\ com_todo = <<>>
    /\ com_seen = <<>>
    /\ defined_funcs = EmptyMap
    /\ adj = EmptyMap
    /\ nodes_meta = {}
    /\ undirected = EmptyMap
    /\ labels = EmptyMap
    /\ lp_iter = 0
    /\ comm_map = EmptyMap
    /\ com_pc = "idle"
    /\ com_ret = NoResult

ComInit ==
    /\ settings \in [min_community_size : {1, 3}]
    /\ old_files = <<>> /\ new_files = <<>> /\ todo = <<>> /\ changes = <<>>
    /\ stats = <<>> /\ files_analyzed = 0 /\ sem_pc = "idle" /\ sem_ret = NoResult
    /\ louvain_installed \in BOOLEAN
    /\ com_todo \in {t \in ComTarballs : Len(t) <= MaxComFiles}
    /\ com_seen = <<>>
    /\ defined_funcs = EmptyMap
    /\ adj = EmptyMap
    /\ nodes_meta = {}
    /\ undirected = EmptyMap
    /\ labels = EmptyMap
    /\ lp_iter = 0
    /\ comm_map = EmptyMap
    /\ com_pc = "build"
    /\ com_ret = NoResult

\* adj.setdefault(n, set()) for every n of ns
SetDefault(map, ns) ==
    [n \in DOMAIN map \cup ns |-> IF n \in DOMAIN map THEN map[n] ELSE {}]

\* `continue` for a file that is not JS/TS
SkipCodeFile ==
    /\ com_pc = "build" /\ com_todo # <<>>
    /\ _ext(Head(com_todo).path) \notin {".js", ".ts", ".tsx", ".jsx"}
    /\ com_seen' = Append(com_seen, Head(com_todo))
    /\ com_todo' = Tail(com_todo)
    /\ UNCHANGED <<louvain_installed, defined_funcs, adj, nodes_meta, undirected,
                   labels, lp_iter, comm_map, com_pc, com_ret,
                   semVars, acVars, docVars, prioVars, simVars, anaVars, httpVars, snapVars, llmVars, updVars, e2eVars, repoVars, xrefVars, zsVars, mkVars, ptVars>>

\* One file of the graph build: what it makes of defined_funcs, adj and
\* nodes_meta (the fields of g).
AddFileTo(g, file) ==
    LET path == file.path
        ex == _extract_functions_and_calls_js(file.data)
        file_node == NodeId(path, FileScope)
        defined == [fn \in DOMAIN g.defined_funcs \cup ex.funcs |->
                       IF fn \in DOMAIN g.defined_funcs THEN g.defined_funcs[fn]
                       ELSE NodeId(path, fn)]
        created == {NodeId(path, fn) : fn \in ex.funcs} \cup {file_node}
        SrcNode(src_fn) == IF src_fn # FileScope THEN NodeId(path, src_fn)
                           ELSE file_node
        with_nodes == SetDefault(g.adj, created)
    IN [defined_funcs |-> defined,
        nodes_meta |-> g.nodes_meta \cup created,
        adj |-> [n \in DOMAIN with_nodes |->
                    with_nodes[n] \cup
                    {defined[callee] :
                       callee \in UNION {ex.calls[src_fn] \cap DOMAIN defined :
                                           src_fn \in {sf \in DOMAIN ex.calls :
                                                         SrcNode(sf) = n}}}]]

AddCodeFile ==
    /\ com_pc = "build" /\ com_todo # <<>>
    /\ _ext(Head(com_todo).path) \in {".js", ".ts", ".tsx", ".jsx"}
    /\ LET g == AddFileTo([defined_funcs |-> defined_funcs, adj |-> adj,
                           nodes_meta |-> nodes_meta], Head(com_todo))
       IN /\ defined_funcs' = g.defined_funcs
          /\ nodes_meta' = g.nodes_meta
          /\ adj' = g.adj
    /\ com_seen' = Append(com_seen, Head(com_todo))
    /\ com_todo' = Tail(com_todo)
    /\ UNCHANGED <<louvain_installed, undirected, labels, lp_iter, comm_map,
                   com_pc, com_ret, semVars, acVars, docVars, prioVars, simVars, anaVars, httpVars, snapVars, llmVars, updVars, e2eVars, repoVars, xrefVars, zsVars, mkVars, ptVars>>

\* Symmetrize: only the nodes of an edge get an entry.
SymmetrizeOf(directed) ==
    LET touched == {n \in DOMAIN directed : directed[n] # {}}
                   \cup UNION {directed[n] : n \in DOMAIN directed}
    IN [n \in touched |->
           (IF n \in DOMAIN directed THEN directed[n] ELSE {}) \cup
           {a \in DOMAIN directed : n \in directed[a]}]

Symmetrize ==
    /\ com_pc = "build" /\ com_todo = <<>>
    /\ undirected' = SymmetrizeOf(adj)
    /\ com_pc' = "labels"
    /\ UNCHANGED <<louvain_installed, com_todo, com_seen, defined_funcs, adj, nodes_meta,
                   labels, lp_iter, comm_map, com_ret,
                   semVars, acVars, docVars, prioVars, simVars, anaVars, httpVars, snapVars, llmVars, updVars, e2eVars, repoVars, xrefVars, zsVars, mkVars, ptVars>>

\* _louvain_community_detection with networkx and community installed:
\* best_partition gives every node of G a community id; which one is the
\* library's choice.
LouvainLabels ==
    /\ com_pc = "labels" /\ louvain_installed
    /\ \E partition \in [DOMAIN undirected -> 0..MaxLabelId] :
          labels' = [n \in DOMAIN undirected |-> <<"community", partition[n]>>]
    /\ com_pc' = "group"
    /\ UNCHANGED <<louvain_installed, com_todo, com_seen, defined_funcs, adj, nodes_meta,
                   undirected, lp_iter, comm_map, com_ret,
                   semVars, acVars, docVars, prioVars, simVars, anaVars, httpVars, snapVars, llmVars, updVars, e2eVars, repoVars, xrefVars, zsVars, mkVars, ptVars>>

\* _label_propagation_fallback, up to its loop: labels = {n: n}
LabelPropagationStart ==
    /\ com_pc = "labels" /\ ~louvain_installed
    /\ labels' = [n \in DOMAIN undirected |-> n]
    /\ lp_iter' = 0
    /\ com_pc' = "propagate"
    /\ UNCHANGED <<louvain_installed, com_todo, com_seen, defined_funcs, adj, nodes_meta,
                   undirected, comm_map, com_ret,
                   semVars, acVars, docVars, prioVars, simVars, anaVars, httpVars, snapVars, llmVars, updVars, e2eVars, repoVars, xrefVars, zsVars, mkVars, ptVars>>

\* max(counts.items(), key=lambda kv: (kv[1], kv[0]))[0]
BestLabel(graph, lab, n) ==
    LET Count(l) == Cardinality({nb \in graph[n] : lab[nb] = l})
        seen == {lab[nb] : nb \in graph[n]}
    IN CHOOSE l \in seen :
          \A o \in seen \ {l} :
             \/ Count(o) < Count(l)
             \/ Count(o) = Count(l) /\ NodeLess(o, l)

\* `for n in nodes` of one round: the labels and the number of changes
RECURSIVE PropagateOver(_, _, _, _)
PropagateOver(graph, nodes, lab, nchanges) ==
    IF nodes = <<>> THEN [labels |-> lab, changes |-> nchanges]
    ELSE LET n == Head(nodes)
         IN IF graph[n] = {} \/ lab[n] = BestLabel(graph, lab, n)
            THEN PropagateOver(graph, Tail(nodes), lab, nchanges)
            ELSE PropagateOver(graph, Tail(nodes),
                               [lab EXCEPT ![n] = BestLabel(graph, lab, n)],
                               nchanges + 1)

\* One round: rnd.shuffle(nodes) leaves the nodes in some order (it starts from
\* the order of the dict, which follows the iteration of the sets of adj).
LabelPropagationRound ==
    /\ com_pc = "propagate"
    /\ \E shuffled \in Orders(DOMAIN undirected) :
          LET r == PropagateOver(undirected, shuffled, labels, 0)
          IN /\ labels' = r.labels
             /\ lp_iter' = lp_iter + 1
             /\ com_pc' = IF r.changes = 0 \/ lp_iter + 1 = max_iter
                          THEN "group" ELSE "propagate"
    /\ UNCHANGED <<louvain_installed, com_todo, com_seen, defined_funcs, adj, nodes_meta,
                   undirected, comm_map, com_ret,
                   semVars, acVars, docVars, prioVars, simVars, anaVars, httpVars, snapVars, llmVars, updVars, e2eVars, repoVars, xrefVars, zsVars, mkVars, ptVars>>

RECURSIVE SumDegrees(_, _)
SumDegrees(graph, nodes) ==
    IF nodes = {} THEN 0
    ELSE LET n == CHOOSE x \in nodes : TRUE
         IN Cardinality(graph[n]) + SumDegrees(graph, nodes \ {n})

\* Group by label, filter by size and return.  The members of a community
\* are kept as a set: their order in the list is the order of the dict.
GroupByLabel(lab) ==
    [l \in {lab[n] : n \in DOMAIN lab} |-> {n \in DOMAIN lab : lab[n] = l}]

CommunitiesResult(graph, groups, st) ==
    [returned |-> TRUE,
     nodes |-> Cardinality(DOMAIN graph),
     edges |-> SumDegrees(graph, DOMAIN graph) \div 2,
     communities |->
        {groups[lab] : lab \in
            {l \in DOMAIN groups :
               Cardinality(groups[l]) >= Max2(1, st.min_community_size)}}]

GroupAndReturn ==
    /\ com_pc = "group"
    /\ comm_map' = GroupByLabel(labels)
    /\ com_ret' = CommunitiesResult(undirected, comm_map', settings)
    /\ com_pc' = "done"
    /\ UNCHANGED <<louvain_installed, com_todo, com_seen, defined_funcs, adj, nodes_meta,
                   undirected, labels, lp_iter,
                   semVars, acVars, docVars, prioVars, simVars, anaVars, httpVars, snapVars, llmVars, updVars, e2eVars, repoVars, xrefVars, zsVars, mkVars, ptVars>>

ComNext ==
    \/ SkipCodeFile
    \/ AddCodeFile
    \/ Symmetrize
    \/ LouvainLabels
    \/ LabelPropagationStart
    \/ LabelPropagationRound
    \/ GroupAndReturn

(***************************************************************************)
(* doc_analyzer.py: DocumentationAnalyzer.analyze_changes.  The four layer   *)
(* calls are the environment: each returns a result or raises.               *)
(***************************************************************************)
LayerOrder == <<"analyze_semantic_diff", "analyze_communities",
                "analyze_cross_references", "analyze_similarity">>
Exceptions == {"RuntimeError", "ReadError"}     \* subclasses of Exception

Raises(exc) == [raised |-> TRUE, exc |-> exc]
Returns(value) == [raised |-> FALSE, value |-> value]
Outcomes(values) == {Raises(exc) : exc \in Exceptions} \cup {Returns(v) : v \in values}

\* top_pairs results of the similarity layer
TopPairLists == {<<>>, <<(<<"code:x.js", "docs:a.md", NumPerm>>)>>}

NoLocals ==
    [changed_files |-> <<>>, communities |-> <<>>, community_map |-> EmptyMap,
     cross_refs |-> EmptyMap, similar_pairs |-> <<>>]

AnaIdle ==
    /\ ana_layers = EmptyMap
    /\ ana_calls = <<>>
    /\ ana_local = NoLocals
    /\ ana_warnings = <<>>
    /\ ana_pc = "idle"
    /\ ana_ret = NoResult

AnaInit ==
    /\ ana_layers \in [analyze_semantic_diff : Outcomes(ChangeTypeLists),
                       analyze_communities : Outcomes(CommunityLists),
                       analyze_cross_references : Outcomes(CrossRefs),
                       analyze_similarity : Outcomes(TopPairLists)]
    /\ ana_calls = <<>>
    /\ ana_local = NoLocals
    /\ ana_warnings = <<>>
    /\ ana_pc = "analyze_semantic_diff"
    /\ ana_ret = NoResult

\* Layer 2 and the conversion of its changes to ChangedFile objects; an
\* exception of the layer leaves analyze_changes.
RunSemantic ==
    /\ ana_pc = "analyze_semantic_diff"
    /\ ana_calls' = Append(ana_calls, "analyze_semantic_diff")
    /\ LET out == ana_layers.analyze_semantic_diff
       IN IF out.raised
          THEN /\ ana_pc' = "raised"
               /\ ana_ret' = [returned |-> FALSE, raised |-> out.exc]
               /\ UNCHANGED ana_local
          ELSE /\ ana_pc' = "analyze_communities"
               /\ ana_local' =
                    [ana_local EXCEPT !.changed_files =
                        [k \in 1..Len(out.value) |->
                            ChangedFile(CodePaths[k], out.value[k], EmptyMap)]]
               /\ UNCHANGED ana_ret
    /\ UNCHANGED <<ana_layers, ana_warnings,
                   semVars, acVars, docVars, prioVars, simVars, comVars, httpVars, snapVars, llmVars, updVars, e2eVars, repoVars, xrefVars, zsVars, mkVars, ptVars>>

\* Layer 3 in its try/except: an exception raised leaves the position of
\* analyze_changes unchanged, nothing is caught.
RunCommunitiesUncaught ==
    /\ ana_pc = "analyze_communities"
    /\ ana_calls' = Append(ana_calls, "analyze_communities")
    /\ LET out == ana_layers.analyze_communities
       IN IF out.raised
          THEN /\ ana_pc' = "raised"
               /\ ana_ret' = [returned |-> FALSE, raised |-> out.exc]
               /\ UNCHANGED ana_local
          ELSE /\ ana_pc' = "analyze_cross_references"
               /\ ana_local' = [ana_local EXCEPT !.communities = out.value,
                                                 !.community_map = CommunityMap(out.value)]
               /\ UNCHANGED ana_ret
    /\ UNCHANGED <<ana_layers, ana_warnings,
                   semVars, acVars, docVars, prioVars, simVars, comVars, httpVars, snapVars, llmVars, updVars, e2eVars, repoVars, xrefVars, zsVars, mkVars, ptVars>>

\* Layer 3 in its try/except, and the community map
RunCommunities ==
    /\ ana_pc = "analyze_communities"
    /\ ana_calls' = Append(ana_calls, "analyze_communities")
    /\ LET out == ana_layers.analyze_communities
           found == IF out.raised THEN <<>> ELSE out.value
       IN /\ ana_local' = [ana_local EXCEPT !.communities = found,
                                            !.community_map = CommunityMap(found)]
          /\ ana_warnings' = IF out.raised
                             THEN Append(ana_warnings, "analyze_communities")
                             ELSE ana_warnings
    /\ ana_pc' = "analyze_cross_references"
    /\ UNCHANGED <<ana_layers, ana_ret,
                   semVars, acVars, docVars, prioVars, simVars, comVars, httpVars, snapVars, llmVars, updVars, e2eVars, repoVars, xrefVars, zsVars, mkVars, ptVars>>

\* Layer 4 and the entities of the changed files; an exception of the layer
\* leaves analyze_changes.
RunCrossReferences ==
    /\ ana_pc = "analyze_cross_references"
    /\ ana_calls' = Append(ana_calls, "analyze_cross_references")
    /\ LET out == ana_layers.analyze_cross_references
       IN IF out.raised
          THEN /\ ana_pc' = "raised"
               /\ ana_ret' = [returned |-> FALSE, raised |-> out.exc]
               /\ UNCHANGED ana_local
          ELSE /\ ana_pc' = "analyze_similarity"
               /\ ana_local' =
                    [ana_local EXCEPT
                        !.cross_refs = out.value,
                        !.changed_files =
                            [k \in 1..Len(ana_local.changed_files) |->
                                ChangedFile(ana_local.changed_files[k].path,
                                            ana_local.changed_files[k].change_type,
                                            out.value)]]
               /\ UNCHANGED ana_ret
    /\ UNCHANGED <<ana_layers, ana_warnings,
                   semVars, acVars, docVars, prioVars, simVars, comVars, httpVars, snapVars, llmVars, updVars, e2eVars, repoVars, xrefVars, zsVars, mkVars, ptVars>>

\* Layer 5 in its try/except
RunSimilarity ==
    /\ ana_pc = "analyze_similarity"
    /\ ana_calls' = Append(ana_calls, "analyze_similarity")
    /\ LET out == ana_layers.analyze_similarity
       IN /\ ana_local' = [ana_local EXCEPT !.similar_pairs =
                              IF out.raised THEN <<>> ELSE out.value]
          /\ ana_warnings' = IF out.raised
                             THEN Append(ana_warnings, "analyze_similarity")
                             ELSE ana_warnings
    /\ ana_pc' = "result"
    /\ UNCHANGED <<ana_layers, ana_ret,
                   semVars, acVars, docVars, prioVars, simVars, comVars, httpVars, snapVars, llmVars, updVars, e2eVars, repoVars, xrefVars, zsVars, mkVars, ptVars>>

\* result = AnalysisResult(...); return result
ReturnAnalysis ==
    /\ ana_pc = "result"
    /\ ana_ret' = [returned |-> TRUE,
                   changed_files |-> ana_local.changed_files,
                   communities |-> ana_local.communities,
                   community_map |-> ana_local.community_map,
                   cross_refs |-> ana_local.cross_refs,
                   similar_pairs |-> ana_local.similar_pairs]
    /\ ana_pc' = "returned"
    /\ UNCHANGED <<ana_layers, ana_calls, ana_local, ana_warnings,
                   semVars, acVars, docVars, prioVars, simVars, comVars, httpVars, snapVars, llmVars, updVars, e2eVars, repoVars, xrefVars, zsVars, mkVars, ptVars>>

AnaNext ==
    \/ RunSemantic
    \/ RunCommunities
    \/ RunCrossReferences
    \/ RunSimilarity
    \/ ReturnAnalysis

(***************************************************************************)
(* pipeline.py: the remote backend.  A response is what urlopen gives for   *)
(* one request; an error message is the sequence of its words.              *)
(***************************************************************************)
HttpErrors ==
    {[kind |-> "http", code |-> "404", body |-> <<"Not", "Found">>],
     [kind |-> "http", code |-> "401", body |-> <<"Bad", "credentials">>],
     [kind |-> "http", code |-> "403", body |-> <<"rate", "limit", "exceeded">>],
     [kind |-> "http", code |-> "500", body |-> <<"Server", "Error">>],
     [kind |-> "http", code |-> "502", body |-> <<"upstream", "said", "HTTP", "404">>]}
NetworkError == [kind |-> "network"]        \* URLError
NotJson == [kind |-> "not json"]            \* a 200 whose body json.loads rejects
Ok(payload) == [kind |-> "ok", json |-> payload]

RuntimeError(msg) == [type |-> "RuntimeError", msg |-> msg]

\* _http_get: the decoded JSON, or the exception raised
_http_get(url, resp) ==
    CASE resp.kind = "ok" -> Returns(resp.json)
      [] resp.kind = "http" ->
            Raises(RuntimeError(<<"HTTP", resp.code, "for">> \o url \o <<":">> \o resp.body))
      [] resp.kind = "network" ->
            Raises(RuntimeError(<<"Network", "error", "for">> \o url \o <<":", "timed", "out">>))
      [] OTHER -> Raises([type |-> "JSONDecodeError", msg |-> <<>>])

\* _http_get_bytes
_http_get_bytes(url, resp) ==
    CASE resp.kind = "http" ->
            Raises(RuntimeError(<<"HTTP", resp.code, "for">> \o url \o <<":">> \o resp.body))
      [] resp.kind = "network" ->
            Raises(RuntimeError(<<"Network", "error", "for">> \o url \o <<":", "timed", "out">>))
      [] OTHER -> Returns(resp.json)

RefUrl(branch) == <<"git/ref/heads", branch>>
RepoUrl == <<"repos">>
TarballUrl(ref) == <<"tarball", ref>>

\* _get_commit_sha
_get_commit_sha(branch, resp) ==
    LET data == _http_get(RefUrl(branch), resp)
    IN IF data.raised THEN data
       ELSE IF data.value.sha = NoValue
            THEN Raises(RuntimeError(<<"Could", "not", "resolve", "branch", branch>>))
            ELSE Returns(data.value.sha)

\* _get_default_branch
_get_default_branch(resp) ==
    LET data == _http_get(RepoUrl, resp)
    IN IF data.raised THEN data
       ELSE IF data.value.default_branch = NoValue
            THEN Raises(RuntimeError(<<"Could", "not", "determine", "default", "branch">>))
            ELSE Returns(data.value.default_branch)

\* "HTTP 404" in error_msg or "Could not resolve branch" in error_msg
BranchNotFound(exc) ==
    \/ Contains(exc.msg, <<"HTTP", "404">>)
    \/ Contains(exc.msg, <<"Could", "not", "resolve", "branch">>)

Branches == {"dev", "feature", "main"}
DefaultBranch == "main"
ShaOf(branch) == IF branch = DefaultBranch THEN "sha-main" ELSE "sha-feature"

\* Commit digests of the history that are the head of no branch: the host has
\* no git/ref/heads/<digest>, so no such lookup is answered with a sha.
Digests == {"digest-old", "digest-new"}

RefResponses(branch) ==
    IF branch \in Digests THEN {NetworkError} \cup HttpErrors
    ELSE {Ok([sha |-> ShaOf(branch)]), Ok([sha |-> NoValue]), NetworkError, NotJson}
         \cup HttpErrors
RepoResponses ==
    {Ok([default_branch |-> DefaultBranch]), Ok([default_branch |-> NoValue]), NetworkError}
    \cup HttpErrors
TarballResponses(ref) == {Ok(<<"tar", ref>>), NetworkError} \cup HttpErrors

Logged(url, resp) == [url |-> url, resp |-> resp]

HttpIdle ==
    /\ http_log = <<>>
    /\ rb_branch = NoValue /\ rb_pc = "idle" /\ rb_ret = NoResult
    /\ fx_local = EmptyMap /\ fx_pc = "idle" /\ fx_ret = NoResult

(***************************************************************************)
(* pipeline.py: _resolve_branch_with_fallback                               *)
(***************************************************************************)
ResolveInit ==
    /\ http_log = <<>>
    /\ rb_branch \in Branches \cup {NoValue}
    /\ rb_pc = "branch"
    /\ rb_ret = NoResult
    /\ fx_local = EmptyMap /\ fx_pc = "idle" /\ fx_ret = NoResult

\* `if branch:` with its try/except, up to the call of _get_default_branch
TryBranch ==
    /\ rb_pc = "branch"
    /\ IF rb_branch = NoValue
       THEN /\ rb_pc' = "default"
            /\ UNCHANGED <<http_log, rb_ret, snapVars, llmVars, updVars, e2eVars, repoVars, xrefVars, zsVars, mkVars, ptVars>>
       ELSE \E resp \in RefResponses(rb_branch) :
               LET sha == _get_commit_sha(rb_branch, resp)
               IN /\ http_log' = Append(http_log, Logged(RefUrl(rb_branch), resp))
                  /\ IF ~sha.raised
                     THEN rb_pc' = "returned" /\ rb_ret' = Returns(rb_branch)
                     ELSE IF sha.exc.type = "RuntimeError" /\ BranchNotFound(sha.exc)
                     THEN rb_pc' = "default" /\ UNCHANGED rb_ret
                     ELSE rb_pc' = "raised" /\ rb_ret' = sha
    /\ UNCHANGED <<rb_branch, fx_local, fx_pc, fx_ret,
                   semVars, acVars, docVars, prioVars, simVars, comVars, anaVars, snapVars, llmVars, updVars, e2eVars, repoVars, xrefVars, zsVars, mkVars, ptVars>>

\* return _get_default_branch(api_base, token, slug)
ReturnDefaultBranch ==
    /\ rb_pc = "default"
    /\ \E resp \in RepoResponses :
          LET branch == _get_default_branch(resp)
          IN /\ http_log' = Append(http_log, Logged(RepoUrl, resp))
             /\ rb_ret' = branch
             /\ rb_pc' = IF branch.raised THEN "raised" ELSE "returned"
    /\ UNCHANGED <<rb_branch, fx_local, fx_pc, fx_ret,
                   semVars, acVars, docVars, prioVars, simVars, comVars, anaVars, snapVars, llmVars, updVars, e2eVars, repoVars, xrefVars, zsVars, mkVars, ptVars>>

ResolveNext == TryBranch \/ ReturnDefaultBranch

(***************************************************************************)
(* pipeline.py: analyze_semantic_diff, from its entry to the two tarballs.  *)
(* `which` is "old" or "new"; the analysis of the snapshots is one step.     *)
(***************************************************************************)
Which == {"old", "new"}
RefOf(loc, which) == IF which = "old" THEN loc.old_ref ELSE loc.new_ref
WithRef(loc, which, ref) ==
    IF which = "old" THEN [loc EXCEPT !.old_ref = ref] ELSE [loc EXCEPT !.new_ref = ref]
WithSha(loc, which, sha) ==
    IF which = "old" THEN [loc EXCEPT !.old_sha = sha] ELSE [loc EXCEPT !.new_sha = sha]
ShaFrom(loc, which) == IF which = "old" THEN loc.old_sha ELSE loc.new_sha
AfterResolve(which) == IF which = "old" THEN <<"sha", "new">> ELSE <<"tarball", "old">>
AfterTarball(which) == IF which = "old" THEN <<"tarball", "new">> ELSE <<"analyze", "new">>

FetchInit ==
    /\ http_log = <<>>
    /\ rb_branch = NoValue /\ rb_pc = "idle" /\ rb_ret = NoResult
    /\ fx_local \in [old_ref : {"main", "dev", "digest-old"},
                     new_ref : {"feature", "digest-new"},
                     old_sha : {NoValue}, new_sha : {NoValue}]
    /\ fx_pc = <<"sha", "old">>
    /\ fx_ret = NoResult

\* old_sha = _get_commit_sha(..., old_ref) in its try/except RuntimeError, up
\* to the call of _get_default_branch
GetSha(which) ==
    /\ fx_pc = <<"sha", which>>
    /\ \E resp \in RefResponses(RefOf(fx_local, which)) :
          LET ref == RefOf(fx_local, which)
              sha == _get_commit_sha(ref, resp)
          IN /\ http_log' = Append(http_log, Logged(RefUrl(ref), resp))
             /\ IF ~sha.raised
                THEN /\ fx_local' = WithSha(fx_local, which, sha.value)
                     /\ fx_pc' = AfterResolve(which)
                     /\ UNCHANGED fx_ret
                ELSE IF sha.exc.type # "RuntimeError"
                THEN /\ fx_pc' = <<"raised", which>>
                     /\ fx_ret' = sha
                     /\ UNCHANGED fx_local
                ELSE IF BranchNotFound(sha.exc)
                THEN /\ fx_pc' = <<"default", which>>
                     /\ UNCHANGED <<fx_local, fx_ret, snapVars, llmVars, updVars, e2eVars, repoVars, xrefVars, zsVars, mkVars, ptVars>>
                ELSE \* Assume it's already a SHA
                     /\ fx_local' = WithSha(fx_local, which, ref)
                     /\ fx_pc' = AfterResolve(which)
                     /\ UNCHANGED fx_ret
    /\ UNCHANGED <<rb_branch, rb_pc, rb_ret,
                   semVars, acVars, docVars, prioVars, simVars, comVars, anaVars, snapVars, llmVars, updVars, e2eVars, repoVars, xrefVars, zsVars, mkVars, ptVars>>

\* old_ref = _get_default_branch(...)
GetDefaultBranch(which) ==
    /\ fx_pc = <<"default", which>>
    /\ \E resp \in RepoResponses :
          LET branch == _get_default_branch(resp)
          IN /\ http_log' = Append(http_log, Logged(RepoUrl, resp))
             /\ IF branch.raised
                THEN /\ fx_pc' = <<"raised", which>>
                     /\ fx_ret' = branch
                     /\ UNCHANGED fx_local
                ELSE /\ fx_local' = WithRef(fx_local, which, branch.value)
                     /\ fx_pc' = <<"default sha", which>>
                     /\ UNCHANGED fx_ret
    /\ UNCHANGED <<rb_branch, rb_pc, rb_ret,
                   semVars, acVars, docVars, prioVars, simVars, comVars, anaVars, snapVars, llmVars, updVars, e2eVars, repoVars, xrefVars, zsVars, mkVars, ptVars>>

\* old_sha = _get_commit_sha(..., old_ref) for the default branch
GetDefaultSha(which) ==
    /\ fx_pc = <<"default sha", which>>
    /\ \E resp \in RefResponses(RefOf(fx_local, which)) :
          LET ref == RefOf(fx_local, which)
              sha == _get_commit_sha(ref, resp)
          IN /\ http_log' = Append(http_log, Logged(RefUrl(ref), resp))
             /\ IF sha.raised
                THEN /\ fx_pc' = <<"raised", which>>
                     /\ fx_ret' = sha
                     /\ UNCHANGED fx_local
                ELSE /\ fx_local' = WithSha(fx_local, which, sha.value)
                     /\ fx_pc' = AfterResolve(which)
                     /\ UNCHANGED fx_ret
    /\ UNCHANGED <<rb_branch, rb_pc, rb_ret,
                   semVars, acVars, docVars, prioVars, simVars, comVars, anaVars, snapVars, llmVars, updVars, e2eVars, repoVars, xrefVars, zsVars, mkVars, ptVars>>

\* old_tar = _get_repo_tarball(..., old_sha)
GetTarball(which) ==
    /\ fx_pc = <<"tarball", which>>
    /\ \E resp \in TarballResponses(ShaFrom(fx_local, which)) :
          LET tar == _http_get_bytes(TarballUrl(ShaFrom(fx_local, which)), resp)
          IN /\ http_log' = Append(http_log,
                                   Logged(TarballUrl(ShaFrom(fx_local, which)), resp))
             /\ IF tar.raised
                THEN fx_pc' = <<"raised", which>> /\ fx_ret' = tar
                ELSE fx_pc' = AfterTarball(which) /\ UNCHANGED fx_ret
    /\ UNCHANGED <<rb_branch, rb_pc, rb_ret, fx_local,
                   semVars, acVars, docVars, prioVars, simVars, comVars, anaVars, snapVars, llmVars, updVars, e2eVars, repoVars, xrefVars, zsVars, mkVars, ptVars>>

\* the analysis of the two snapshots, and the return of its result
AnalyzeSnapshots ==
    /\ fx_pc = <<"analyze", "new">>
    /\ fx_pc' = <<"returned", "new">>
    /\ fx_ret' = Returns(fx_local)
    /\ UNCHANGED <<http_log, rb_branch, rb_pc, rb_ret, fx_local,
                   semVars, acVars, docVars, prioVars, simVars, comVars, anaVars, snapVars, llmVars, updVars, e2eVars, repoVars, xrefVars, zsVars, mkVars, ptVars>>

FetchNext ==
    \/ \E which \in Which : GetSha(which)
    \/ \E which \in Which : GetDefaultBranch(which)
    \/ \E which \in Which : GetDefaultSha(which)
    \/ \E which \in Which : GetTarball(which)
    \/ AnalyzeSnapshots

(***************************************************************************)
(* pipeline.py / local_git_adapter.py: the snapshot of a ref.  A path is   *)
(* the sequence of its components; the bytes of a file are named by the    *)
(* repository path they were committed under.                              *)
(***************************************************************************)
TreeOrder ==
    << <<"README.md">>, <<"lib">>, <<"lib", "a.py">>, <<"src">>,
       <<"src", "a.py">>, <<"src", "deep">>, <<"src", "deep", "b.py">>,
       <<"top.py">> >>

RepoPaths ==
    { <<"README.md">>, <<"lib", "a.py">>, <<"src", "a.py">>,
      <<"src", "deep", "b.py">>, <<"top.py">> }

Backends == {"github", "local"}

ArchivePrefix == <<"o-r-0a1b2c3">>

IsProperPrefix(p, q) == Len(p) < Len(q) /\ SubSeq(q, 1, Len(p)) = p

SelectOrder(tree) ==
    SelectSeq(TreeOrder,
              LAMBDA p : p \in tree \/ \E q \in tree : IsProperPrefix(p, q))

Member(prefix, tree, p) ==
    [name |-> prefix \o p, isfile |-> p \in tree, data |-> p]

_get_repo_tarball(tree) ==
    LET order == SelectOrder(tree)
    IN  << [name |-> ArchivePrefix, isfile |-> FALSE, data |-> <<>>] >>
        \o [k \in 1..Len(order) |-> Member(ArchivePrefix, tree, order[k])]

get_local_repo_tarball(tree) ==
    LET order == SelectOrder(tree)
    IN  [k \in 1..Len(order) |-> Member(<<>>, tree, order[k])]

_strip_tar_leading_dir(path) == IF Len(path) > 1 THEN Tail(path) ELSE path

RECURSIVE IndexMembers(_, _)
IndexMembers(members, files) ==
    IF members = <<>> THEN files
    ELSE LET mem == Head(members)
             path == _strip_tar_leading_dir(mem.name)
         IN  IF ~mem.isfile THEN IndexMembers(Tail(members), files)
             ELSE IndexMembers(Tail(members),
                    [q \in DOMAIN files \cup {path} |->
                        IF q = path THEN mem.data ELSE files[q]])

SnapIdle ==
    /\ snap_backend = NoValue /\ snap_tree = {} /\ snap_tar = <<>>
    /\ snap_files = EmptyMap /\ snap_pc = "idle"

SnapInit ==
    /\ snap_backend \in Backends
    /\ snap_tree \in SUBSET RepoPaths
    /\ snap_tar = <<>>
    /\ snap_files = EmptyMap
    /\ snap_pc = "fetch"

FetchTarball ==
    /\ snap_pc = "fetch"
    /\ snap_tar' = IF snap_backend = "local"
                     THEN get_local_repo_tarball(snap_tree)
                     ELSE _get_repo_tarball(snap_tree)
    /\ snap_pc' = "index"
    /\ UNCHANGED <<snap_backend, snap_tree, snap_files>>
    /\ UNCHANGED <<semVars, acVars, docVars, prioVars, simVars, comVars, anaVars, httpVars, llmVars, updVars, e2eVars, repoVars, xrefVars, zsVars, mkVars, ptVars>>

IndexSnapshot ==
    /\ snap_pc = "index"
    /\ snap_files' = IndexMembers(snap_tar, EmptyMap)
    /\ snap_pc' = "done"
    /\ UNCHANGED <<snap_backend, snap_tree, snap_tar>>
    /\ UNCHANGED <<semVars, acVars, docVars, prioVars, simVars, comVars, anaVars, httpVars, llmVars, updVars, e2eVars, repoVars, xrefVars, zsVars, mkVars, ptVars>>

SnapNext ==
    \/ FetchTarball
    \/ IndexSnapshot

(***************************************************************************)
(* llm_doc_generator.py: LLMDocGenerator.generate_doc_update.  A str is a  *)
(* sequence of tokens: the punctuation, strings, numbers and null of JSON, *)
(* and words of prose.  A float is a number of thousandths, or NaN.        *)
(***************************************************************************)
Tok(t, s, n) == [t |-> t, s |-> s, n |-> n]
Punct(s) == Tok("punct", s, 0)
Str(s) == Tok("str", s, 0)          \* "s" in a JSON text
Num(n) == Tok("num", "", n)         \* the number n / 1000 in a JSON text
NaNTok == Tok("nan", "", 0)         \* NaN in a JSON text
Null == Tok("null", "", 0)          \* null in a JSON text
Word(s) == Tok("word", s, 0)        \* a word of a text that is not JSON

Float(n) == [nan |-> FALSE, m |-> n]
NaN == [nan |-> TRUE, m |-> 0]
FloatLt(a, b) == ~a.nan /\ ~b.nan /\ a.m < b.m       \* a < b
FloatLe(a, b) == ~a.nan /\ ~b.nan /\ a.m <= b.m      \* a <= b

\* Is text[from..to] the inside of a JSON object: key : value , key : value
RECURSIVE IsMembers(_, _, _)
IsMembers(txt, from, to) ==
    IF to - from + 1 < 3 THEN FALSE
    ELSE /\ txt[from].t = "str"
         /\ txt[from + 1] = Punct(":")
         /\ txt[from + 2].t \in {"str", "num", "nan", "null"}
         /\ \/ to = from + 2
            \/ to > from + 3 /\ txt[from + 3] = Punct(",")
                             /\ IsMembers(txt, from + 4, to)

\* The dict of such an object; a later key replaces an earlier one.
RECURSIVE MembersOf(_, _, _, _)
MembersOf(txt, from, to, acc) ==
    IF from > to THEN acc
    ELSE MembersOf(txt, from + 4, to,
                   [k \in DOMAIN acc \cup {txt[from].s} |->
                       IF k = txt[from].s THEN txt[from + 2] ELSE acc[k]])

IsObject(txt) ==
    /\ Len(txt) >= 2 /\ txt[1] = Punct("{") /\ txt[Len(txt)] = Punct("}")
    /\ Len(txt) = 2 \/ IsMembers(txt, 2, Len(txt) - 1)

IsOtherJson(txt) ==
    \/ Len(txt) = 1 /\ txt[1].t \in {"str", "num", "nan", "null"}
    \/ txt = <<Punct("["), Punct("]")>>

\* json.loads(response_text); response_text may be None
json_loads(resp_text) ==
    IF resp_text.isnone THEN Raises("TypeError")
    ELSE IF IsObject(resp_text.str)
    THEN Returns([isdict |-> TRUE,
                  dict |-> MembersOf(resp_text.str, 2, Len(resp_text.str) - 1, EmptyMap)])
    ELSE IF IsOtherJson(resp_text.str)
    THEN Returns([isdict |-> FALSE, dict |-> EmptyMap])
    ELSE Raises("JSONDecodeError")

\* float(x) of a value of the parsed JSON
float(x) ==
    IF x.t = "num" THEN Returns(Float(x.n))
    ELSE IF x.t = "nan" THEN Returns(NaN)
    ELSE IF x.t = "null" THEN Raises("TypeError")
    ELSE IF x = Str("0.9") THEN Returns(Float(900))
    ELSE Raises("ValueError")

DefaultConfidence == 700       \* data.get("confidence", 0.7)
NotJsonConfidence == 500       \* confidence = 0.5
StubConfidence == 100          \* confidence=0.1
NoExplanation == <<Word("No explanation provided")>>
NotJsonExplanation == <<Word("LLM response was not in expected JSON format")>>

\* The Python value of a JSON value: a str, or None.
PyStr(x) == [isnone |-> FALSE, str |-> x]
PyNone == [isnone |-> TRUE, str |-> <<>>]
PyValue(x) == IF x.t = "str" THEN PyStr(<<Word(x.s)>>) ELSE PyNone

_parse_response(response_text, current_doc) ==
    LET loaded == json_loads(response_text)
    IN  IF loaded.raised
        THEN IF loaded.exc = "JSONDecodeError"
             THEN Returns([updated_doc |-> response_text,
                           explanation |-> NotJsonExplanation,
                           confidence |-> Float(NotJsonConfidence)])
             ELSE loaded
        ELSE IF ~loaded.value.isdict THEN Raises("AttributeError")
        ELSE LET data == loaded.value.dict
                 conf == IF "confidence" \in DOMAIN data
                         THEN float(data["confidence"])
                         ELSE Returns(Float(DefaultConfidence))
             IN  IF conf.raised THEN conf
                 ELSE Returns(
                        [updated_doc |-> IF "updated_doc" \in DOMAIN data
                                         THEN PyValue(data["updated_doc"])
                                         ELSE PyStr(current_doc),
                         explanation |-> IF "explanation" \in DOMAIN data
                                         THEN PyValue(data["explanation"]).str
                                         ELSE NoExplanation,
                         confidence |-> conf.value])

\* new_doc.split('\n') of a value that is not a str raises
_generate_diff(old_doc, new_doc) ==
    IF new_doc.isnone THEN Raises("AttributeError")
    ELSE Returns(<<Word("diff")>> \o old_doc \o new_doc.str)

Providers == {"openai", "anthropic"}
ModelOf(provider) ==
    IF provider = "openai" THEN "gpt-4-turbo" ELSE "claude-3-5-sonnet-20241022"
\* COSTS, in 1/10000 dollar for 1000 tokens
InputCost(model) == IF model = "gpt-4-turbo" THEN 100 ELSE 30
OutputCost(model) == IF model = "gpt-4-turbo" THEN 300 ELSE 150
\* in 1/10000 dollar; the numbers of tokens of the model are multiples of 10
_calculate_cost(model, tokens_used) ==
    (6 * tokens_used * InputCost(model) + 4 * tokens_used * OutputCost(model))
        \div 10000

DocSuggestion(updated_doc, diff, explanation, confidence, provider, model, tokens_used, cost_usd) ==
    [updated_doc |-> updated_doc, diff |-> diff, explanation |-> explanation,
     confidence |-> confidence, provider |-> provider, model |-> model,
     tokens_used |-> tokens_used, cost_usd |-> cost_usd]

\* context["new_code"] has or has no docstring, has or has no def of the entity
_fallback_suggestion(args) ==
    LET head == <<Word("###"), Word(args.entity_name), Word("*Source:"),
                  Word(args.file)>>
        body == IF args.docstring THEN <<Word("docstring")>>
                ELSE <<Word("Function"), Word(args.entity_name),
                       Word(args.change_type), Word("change detected."),
                       Word("**WARNING: Auto-generated stub**")>>
        sig  == IF args.signature
                THEN <<Word("**Signature:**"), Word("def"), Word(args.entity_name)>>
                ELSE <<>>
        updated_doc == head \o body \o sig
    IN  DocSuggestion(PyStr(updated_doc),
                      _generate_diff(args.current_doc, PyStr(updated_doc)).value,
                      <<Word("WARNING: LLM unavailable"), Word(args.entity_name),
                        Word(args.change_type)>>,
                      Float(StubConfidence), "fallback", "code-analysis", 0, 0)

\* The JSON text of an object with the given members, in order.
RECURSIVE JoinMembers(_)
JoinMembers(pairs) ==
    IF pairs = <<>> THEN <<>>
    ELSE <<Str(Head(pairs)[1]), Punct(":"), Head(pairs)[2]>>
         \o (IF Len(pairs) > 1 THEN <<Punct(",")>> ELSE <<>>)
         \o JoinMembers(Tail(pairs))

Obj(pairs) == <<Punct("{")>> \o JoinMembers(pairs) \o <<Punct("}")>>

\* The values of the confidence member a provider may send.
ConfidenceTokens ==
    {Num(850), Num(300), Num(299), Num(0), Num(1000), Num(-1000), Num(1500),
     NaNTok, Str("0.9"), Str("high"), Null}

\* The response texts: the JSON envelope the prompt asks for, with every
\* confidence; envelopes with members missing, null or repeated; JSON that is
\* not an object; texts that are not JSON; and the None of an empty message.
ResponseTexts ==
    {PyStr(Obj(<< <<"updated_doc", Str("new doc")>>, <<"explanation", Str("why")>>,
                  <<"confidence", c>> >>)) : c \in ConfidenceTokens}
    \cup {PyStr(Obj(<< <<"updated_doc", Str("new doc")>>, <<"explanation", Str("why")>> >>)),
          PyStr(Obj(<< <<"confidence", Num(850)>> >>)),
          PyStr(Obj(<<>>)),
          PyStr(Obj(<< <<"updated_doc", Null>>, <<"confidence", Num(850)>> >>)),
          PyStr(Obj(<< <<"confidence", Num(850)>>, <<"confidence", Num(1500)>> >>)),
          PyStr(<<Num(850)>>),
          PyStr(<<Punct("["), Punct("]")>>),
          PyStr(<<>>),
          PyStr(<<Word("Here is the documentation")>>),
          PyStr(<<Word("fence")>>
                \o Obj(<< <<"updated_doc", Str("new doc")>>, <<"confidence", Num(850)>> >>)
                \o <<Word("fence")>>),
          PyStr(<<Punct("{"), Str("confidence"), Punct(":"), Num(850)>>),
          PyNone}

TokenCounts == {0, 1000}

CallOutcomes ==
    {Raises("APIError")}
    \cup {Returns([response_text |-> t, tokens_used |-> n]) :
            t \in ResponseTexts, n \in TokenCounts}

LlmArgs ==
    [current_doc : {<<>>, <<Word("old doc")>>},
     change_type : {"major", "minor"},
     entity_name : {"foo"},
     file : {"a.py"},
     docstring : BOOLEAN,
     signature : BOOLEAN,
     provider : Providers]

LlmIdle ==
    /\ llm_client = FALSE /\ llm_args = EmptyMap /\ llm_resp = NoResult
    /\ llm_pc = "idle" /\ llm_ret = NoResult

LlmInit ==
    /\ llm_client \in BOOLEAN
    /\ llm_args \in LlmArgs
    /\ llm_resp = NoResult
    /\ llm_pc = "start"
    /\ llm_ret = NoResult

\* if self.client is None: return self._fallback_suggestion(...)
NoClient ==
    /\ llm_pc = "start" /\ ~llm_client
    /\ llm_ret' = Returns(_fallback_suggestion(llm_args))
    /\ llm_pc' = "returned"
    /\ UNCHANGED <<llm_client, llm_args, llm_resp>>
    /\ UNCHANGED <<semVars, acVars, docVars, prioVars, simVars, comVars, anaVars, httpVars, snapVars, updVars, e2eVars, repoVars, xrefVars, zsVars, mkVars, ptVars>>

\* response_text, tokens_used = self._call_llm(prompt), inside the try
CallLlm ==
    /\ llm_pc = "start" /\ llm_client
    /\ \E out \in CallOutcomes :
         /\ llm_resp' = out
         /\ IF out.raised
            THEN /\ llm_ret' = Returns(_fallback_suggestion(llm_args))
                 /\ llm_pc' = "returned"
            ELSE /\ llm_pc' = "parse"
                 /\ UNCHANGED llm_ret
    /\ UNCHANGED <<llm_client, llm_args>>
    /\ UNCHANGED <<semVars, acVars, docVars, prioVars, simVars, comVars, anaVars, httpVars, snapVars, updVars, e2eVars, repoVars, xrefVars, zsVars, mkVars, ptVars>>

\* The rest of the try block, as a function of the response.
SuggestionFrom(args, resp) ==
    LET parsed == _parse_response(resp.response_text, args.current_doc)
    IN  IF parsed.raised THEN parsed
        ELSE LET diff == _generate_diff(args.current_doc, parsed.value.updated_doc)
                 model == ModelOf(args.provider)
             IN  IF diff.raised THEN diff
                 ELSE Returns(DocSuggestion(parsed.value.updated_doc, diff.value,
                                            parsed.value.explanation,
                                            parsed.value.confidence,
                                            args.provider, model, resp.tokens_used,
                                            _calculate_cost(model, resp.tokens_used)))

SuggestionOrFallbackUncaught(args, resp) == SuggestionFrom(args, resp)

\* except Exception: return self._fallback_suggestion(...)
SuggestionOrFallback(args, resp) ==
    LET made == SuggestionFrom(args, resp)
    IN  IF made.raised THEN Returns(_fallback_suggestion(args)) ELSE made

ParseResponse ==
    /\ llm_pc = "parse"
    /\ llm_ret' = SuggestionOrFallback(llm_args, llm_resp.value)
    /\ llm_pc' = "returned"
    /\ UNCHANGED <<llm_client, llm_args, llm_resp>>
    /\ UNCHANGED <<semVars, acVars, docVars, prioVars, simVars, comVars, anaVars, httpVars, snapVars, updVars, e2eVars, repoVars, xrefVars, zsVars, mkVars, ptVars>>

LlmNext ==
    \/ NoClient
    \/ CallLlm
    \/ ParseResponse

(***************************************************************************)
(* update_docs_hotpath.py: generate_llm_documentation and the writing loop *)
(* of main.  Texts are as in append_documentation above.                   *)
(***************************************************************************)
MaxChanges == 2        \* main handles 1..MaxChanges changes
MIN_CONFIDENCE == 300  \* MIN_CONFIDENCE = 0.3

UpdEntities == {"foo", "Foo", "bar"}
UpdCodeFiles == {"a.py", "b.py"}
ApiRefDoc == "API-Reference.md"
StemDoc(file) == IF file = "a.py" THEN "a.md" ELSE "b.md"    \* docs/<module>.md
DocNames == {"a.md", "b.md", ApiRefDoc}

Changes == [file : UpdCodeFiles, entity : UpdEntities]
ChangeLists ==
    {cs \in UNION {[1..k -> Changes] : k \in 1..MaxChanges} :
        \A a, b \in DOMAIN cs : a # b => cs[a] # cs[b]}

\* The docs directory before the run: empty; only the general API reference;
\* or a.md with a section of "bar".
DocDirs ==
    {[d \in DocNames |-> NoFile],
     [d \in DocNames |->
        IF d = ApiRefDoc
        THEN [exists |-> TRUE, content |-> <<"#", " ", Title, "\n", "\n">>]
        ELSE NoFile],
     [d \in DocNames |->
        IF d = "a.md"
        THEN [exists |-> TRUE,
              content |-> <<"#", " ", Title, "\n", "\n">> \o ApiReference
                          \o <<"\n", "\n", "#", "#", "#", " ", "bar", "\n", "\n",
                               "old", "\n">>]
        ELSE NoFile]}

\* re.compile(rf"(^|\W){re.escape(entity)}(\W|$)").search(content) for any doc
is_entity_documented(entity, docs) ==
    \E d \in DocNames :
        docs[d].exists /\ \E k \in DOMAIN docs[d].content : docs[d].content[k] = entity

find_best_doc_file(docs, filepath) ==
    IF docs[StemDoc(filepath)].exists THEN StemDoc(filepath)
    ELSE IF docs[ApiRefDoc].exists THEN ApiRefDoc
    ELSE StemDoc(filepath)

\* What generate_doc_update may return for a change: a suggestion of the
\* provider with the confidence of its response, or the stub.
Suggestions(change) ==
    {[confidence |-> c, provider |-> "openai", updated_doc |-> <<"text">>] :
        c \in {Float(850), Float(MIN_CONFIDENCE), Float(MIN_CONFIDENCE - 1), NaN}}
    \cup {[confidence |-> Float(850), provider |-> "openai",
           updated_doc |-> <<"#", "#", " ", change.entity, "\n", "\n", "text">>]}
    \cup {[confidence |-> Float(StubConfidence), provider |-> "fallback",
           updated_doc |-> <<"stub">>]}

\* What main knows of a generated suggestion, and the doc file chosen for it.
Generated(suggestion, target_doc) ==
    [confidence |-> suggestion.confidence, provider |-> suggestion.provider,
     updated_doc |-> suggestion.updated_doc, target_doc |-> target_doc]

NoSuggestion == Generated([confidence |-> NaN, provider |-> NoValue, updated_doc |-> <<>>], NoValue)

UpdIdle ==
    /\ upd_docs = EmptyMap /\ upd_changes = <<>> /\ upd_i = 0
    /\ upd_sugg = <<>> /\ upd_status = <<>> /\ upd_grouped = <<>>
    /\ upd_w = 0 /\ upd_pc = "idle"

UpdInit ==
    /\ upd_docs \in DocDirs
    /\ upd_changes \in ChangeLists
    /\ upd_i = 1
    /\ upd_sugg = [k \in DOMAIN upd_changes |-> NoSuggestion]
    /\ upd_status = [k \in DOMAIN upd_changes |-> "pending"]
    /\ upd_grouped = <<>>
    /\ upd_w = 0
    /\ upd_pc = "generate"

\* if is_entity_documented(change['entity'], current_docs): continue
SkipDocumented ==
    /\ upd_pc = "generate" /\ upd_i <= Len(upd_changes)
    /\ is_entity_documented(upd_changes[upd_i].entity, upd_docs)
    /\ upd_status' = [upd_status EXCEPT ![upd_i] = "skipped"]
    /\ upd_i' = upd_i + 1
    /\ UNCHANGED <<upd_docs, upd_changes, upd_sugg, upd_grouped, upd_w, upd_pc>>
    /\ UNCHANGED <<semVars, acVars, docVars, prioVars, simVars, comVars, anaVars, httpVars, snapVars, llmVars, e2eVars, repoVars, xrefVars, zsVars, mkVars, ptVars>>

\* if suggestion.confidence < MIN_CONFIDENCE: continue
DropLowConfidence ==
    /\ upd_pc = "generate" /\ upd_i <= Len(upd_changes)
    /\ ~is_entity_documented(upd_changes[upd_i].entity, upd_docs)
    /\ \E suggestion \in Suggestions(upd_changes[upd_i]) :
         /\ FloatLt(suggestion.confidence, Float(MIN_CONFIDENCE))
         /\ upd_sugg' = [upd_sugg EXCEPT ![upd_i] =
                           Generated(suggestion,
                                     find_best_doc_file(upd_docs, upd_changes[upd_i].file))]
    /\ upd_status' = [upd_status EXCEPT ![upd_i] = "dropped"]
    /\ upd_i' = upd_i + 1
    /\ UNCHANGED <<upd_docs, upd_changes, upd_grouped, upd_w, upd_pc>>
    /\ UNCHANGED <<semVars, acVars, docVars, prioVars, simVars, comVars, anaVars, httpVars, snapVars, llmVars, e2eVars, repoVars, xrefVars, zsVars, mkVars, ptVars>>

\* grouped[target_doc].append({...}); a dict keeps its keys in insertion order
AppendToGroup(grouped, target_doc, section) ==
    IF \E g \in DOMAIN grouped : grouped[g].doc_file = target_doc
    THEN [g \in DOMAIN grouped |->
            IF grouped[g].doc_file = target_doc
            THEN [grouped[g] EXCEPT !.sections = Append(@, section)]
            ELSE grouped[g]]
    ELSE Append(grouped, [doc_file |-> target_doc, sections |-> <<section>>])

StoreSuggestion ==
    /\ upd_pc = "generate" /\ upd_i <= Len(upd_changes)
    /\ ~is_entity_documented(upd_changes[upd_i].entity, upd_docs)
    /\ \E suggestion \in Suggestions(upd_changes[upd_i]) :
         /\ ~FloatLt(suggestion.confidence, Float(MIN_CONFIDENCE))
         /\ upd_sugg' = [upd_sugg EXCEPT ![upd_i] =
                           Generated(suggestion,
                                     find_best_doc_file(upd_docs, upd_changes[upd_i].file))]
         /\ upd_grouped' =
               AppendToGroup(upd_grouped,
                             find_best_doc_file(upd_docs, upd_changes[upd_i].file),
                             [entity |-> upd_changes[upd_i].entity,
                              file |-> upd_changes[upd_i].file,
                              content |-> suggestion.updated_doc])
    /\ upd_status' = [upd_status EXCEPT ![upd_i] = "accepted"]
    /\ upd_i' = upd_i + 1
    /\ UNCHANGED <<upd_docs, upd_changes, upd_w, upd_pc>>
    /\ UNCHANGED <<semVars, acVars, docVars, prioVars, simVars, comVars, anaVars, httpVars, snapVars, llmVars, e2eVars, repoVars, xrefVars, zsVars, mkVars, ptVars>>

\* return grouped; in main: if not generated: return
ReturnGrouped ==
    /\ upd_pc = "generate" /\ upd_i > Len(upd_changes)
    /\ upd_pc' = IF upd_grouped = <<>> THEN "returned" ELSE "write"
    /\ upd_w' = 1
    /\ UNCHANGED <<upd_docs, upd_changes, upd_i, upd_sugg, upd_status, upd_grouped>>
    /\ UNCHANGED <<semVars, acVars, docVars, prioVars, simVars, comVars, anaVars, httpVars, snapVars, llmVars, e2eVars, repoVars, xrefVars, zsVars, mkVars, ptVars>>

\* for doc_file, sections in generated.items(): append_documentation(...)
WriteDocFile ==
    /\ upd_pc = "write" /\ upd_w <= Len(upd_grouped)
    /\ LET g == upd_grouped[upd_w]
       IN  upd_docs' = [upd_docs EXCEPT ![g.doc_file] =
                          [exists |-> TRUE,
                           content |-> append_documentation(upd_docs[g.doc_file],
                                                            g.sections)]]
    /\ upd_w' = upd_w + 1
    /\ upd_pc' = IF upd_w = Len(upd_grouped) THEN "commit" ELSE "write"
    /\ UNCHANGED <<upd_changes, upd_i, upd_sugg, upd_status, upd_grouped>>
    /\ UNCHANGED <<semVars, acVars, docVars, prioVars, simVars, comVars, anaVars, httpVars, snapVars, llmVars, e2eVars, repoVars, xrefVars, zsVars, mkVars, ptVars>>

UpdNext ==
    \/ SkipDocumented
    \/ DropLowConfidence
    \/ StoreSuggestion
    \/ ReturnGrouped
    \/ WriteDocFile

(***************************************************************************)
(* doc_analyzer.py: analyze_changes followed by prioritize_documentation,  *)
(* for one changed code file that defines one entity, and the docs that    *)
(* mention the entity.                                                     *)
(***************************************************************************)
\* pipeline.analyze_cross_references: the docs that mention the entity, and
\* for every doc the number of matches of every entity it mentions.
CrossReferenceResult(input) ==
    LET docs == {d \in DOMAIN input.mentions : input.mentions[d] > 0}
    IN  [entity_to_docs |->
            [e \in (IF docs = {} THEN {} ELSE {input.entity}) |-> docs],
         references_by_doc |->
            [d \in docs |-> [e \in {input.entity} |-> input.mentions[d]]]]

\* The AnalysisResult analyze_changes builds from the layers' results; the
\* result of analyze_cross_references has no key "all_entities".
AnalysisResult(input) ==
    LET crossref_result == CrossReferenceResult(input)
        cross_refs == crossref_result.entity_to_docs
    IN  [changed_files |-> <<ChangedFile(input.path, input.change_type, cross_refs)>>,
         all_entities |-> {},
         cross_refs |-> cross_refs,
         references_as |-> "counts",
         references_by_doc |-> crossref_result.references_by_doc,
         communities |-> input.communities,
         community_map |-> CommunityMap(input.communities)]

E2EInputs ==
    [path : {CodePaths[k] : k \in DOMAIN CodePaths},
     entity : EntityNames,
     communities : NodeCommunityLists,
     change_type : {"refactor", "minor", "major", "rewrite"},
     mentions : [{DocPaths[k] : k \in DOMAIN DocPaths} -> 0..MaxMentions]]

E2EIdle == e2e_in = NoValue /\ e2e_pc = "idle"

E2EInit ==
    /\ e2e_in \in E2EInputs
    /\ e2e_pc = "analyze"
    /\ analysis = NoResult
    /\ prio_runs = <<>>

\* analysis = analyzer.analyze_changes(old_ref, new_ref)
AnalyzeChanges ==
    /\ e2e_pc = "analyze"
    /\ analysis' = AnalysisResult(e2e_in)
    /\ e2e_pc' = "prioritize"
    /\ UNCHANGED <<e2e_in, prio_runs>>
    /\ UNCHANGED <<semVars, acVars, docVars, simVars, comVars, anaVars, httpVars, snapVars, llmVars, updVars, repoVars, xrefVars, zsVars, mkVars, ptVars>>

\* impacted = analyzer.prioritize_documentation(analysis)
PrioritizeAnalysis ==
    /\ e2e_pc = "prioritize"
    /\ \E entity_order \in Orders(EntityNames),
          doc_order \in Orders({DocPaths[k] : k \in 1..Len(DocPaths)}) :
          prio_runs' = <<prioritize_documentation(analysis, entity_order, doc_order)>>
    /\ e2e_pc' = "done"
    /\ UNCHANGED <<e2e_in, analysis>>
    /\ UNCHANGED <<semVars, acVars, docVars, simVars, comVars, anaVars, httpVars, snapVars, llmVars, updVars, repoVars, xrefVars, zsVars, mkVars, ptVars>>

E2ENext ==
    \/ AnalyzeChanges
    \/ PrioritizeAnalysis

(***************************************************************************)
(* pipeline.py: analyze_similarity from the two tar archives on: add_repo  *)
(* turns every file into a MinHash signature, then the candidates and the  *)
(* edges are found as modelled above.  The code repository holds x.js, the *)
(* docs repository a.md and b.md; the time budget and the file limits are  *)
(* not reached.  The bytes of the model are "A", the blank and the         *)
(* carriage return, so the comment, code fence and link patterns of        *)
(* _normalize_text match nothing.                                          *)
(***************************************************************************)
MaxText == 4         \* a file has 0..MaxText bytes
Window == 2          \* rolling_hash_window_size of the model
HashPrime == 31      \* P of the model's _minhash_params
DefaultMaxTokens == 4000
DefaultThreshold == 700        \* PipelineSettings.similarity_threshold
DefaultMinCommunity == 3       \* PipelineSettings.min_community_size

Bytes == {"A", " ", "\r"}
Texts == UNION {[1..n -> Bytes] : n \in 0..MaxText}

PathOf(fid) ==
    CASE fid = "code:x.js" -> "x.js"
      [] fid = "docs:a.md" -> "a.md"
      [] fid = "docs:b.md" -> "b.md"

\* the characters str.split() splits at
IsWhitespace(c) == c \in {" ", "\t", "\n", "\r"}

\* s.replace("\r", "")
RemoveCR(s) == SelectSeq(s, LAMBDA c : c # "\r")

\* s.split(): the maximal runs of characters that are not whitespace
RECURSIVE split(_)
split(s) ==
    IF s = <<>> THEN <<>>
    ELSE IF IsWhitespace(Head(s)) THEN split(Tail(s))
    ELSE LET rest == split(Tail(s))
         IN IF Len(s) > 1 /\ ~IsWhitespace(s[2])
            THEN <<(<<Head(s)>> \o Head(rest))>> \o Tail(rest)
            ELSE <<(<<Head(s)>>)>> \o rest

\* " ".join(words)
RECURSIVE join(_)
join(words) ==
    IF words = <<>> THEN <<>>
    ELSE IF Len(words) = 1 THEN words[1]
    ELSE words[1] \o <<" ">> \o join(Tail(words))

\* _normalize_text, for the extensions .js and .md
_normalize_text(data, ext) ==
    LET s == RemoveCR(data)
    IN lower(join(split(s)))

\* hashlib.blake2b(...).digest() as a number: different windows, different
\* digests
ByteCode(c) ==
    CASE c = "A" -> 1
      [] c = "a" -> 2
      [] c = " " -> 3
      [] c = "\r" -> 4
RECURSIVE blake2b(_)
blake2b(bytes) ==
    IF bytes = <<>> THEN 0
    ELSE ByteCode(Head(bytes)) + 5 * blake2b(Tail(bytes))

\* The loop of _file_tokens_from_bytes from offset i on.
RECURSIVE TokenLoop(_, _, _, _, _)
TokenLoop(data, i, window, max_tokens, tokens) ==
    IF i > Len(data) - window THEN tokens
    ELSE LET added == tokens \cup {blake2b(SubSeq(data, i + 1, i + window))}
         IN IF Cardinality(added) >= max_tokens THEN added
            ELSE TokenLoop(data, i + Max2(1, window \div 4), window,
                           max_tokens, added)

_file_tokens_from_bytes(data, window, max_tokens) ==
    IF data = <<>> \/ window <= 0 \/ Len(data) < window THEN {}
    ELSE TokenLoop(data, 0, window, max_tokens, {})

\* _minhash_params: num_perm multipliers in 1..P-2 and offsets in 0..P-2,
\* the same in every run (the seed is fixed)
_minhash_params(num_perm) ==
    [a |-> [i \in 1..num_perm |-> 1 + ((7 * i) % (HashPrime - 2))],
     b |-> [i \in 1..num_perm |-> (3 * i) % (HashPrime - 1)],
     P |-> HashPrime]

_minhash_signature(tokens, a, b, P) ==
    [i \in 1..Len(a) |->
        SetMin({P - 1} \cup {(a[i] * x + b[i]) % P : x \in tokens})]

\* The body of add_repo's loop for one member: its signature.
FileSignature(fid, data, st) ==
    LET path == PathOf(fid)
        normalized == IF st.similarity_text_normalize
                      THEN _normalize_text(data, _ext(path))
                      ELSE data
        tokens == _file_tokens_from_bytes(normalized,
                                          st.rolling_hash_window_size,
                                          st.similarity_max_tokens_per_file)
        params == _minhash_params(st.minhash_num_perm)
    IN _minhash_signature(tokens, params.a, params.b, params.P)

\* add_repo(tf, kind, limit): signatures[fid] = sig for the files of the repo
add_repo(sigs, files, kind, st) ==
    [fid \in (DOMAIN sigs) \cup {f \in DOMAIN files : KindOf(f) = kind} |->
        IF fid \in DOMAIN sigs THEN sigs[fid]
        ELSE FileSignature(fid, files[fid], st)]

\* The default settings, with the signature length of the model split into
\* bands as the default 128 is split into 16 bands of 8 rows; whether only
\* code/docs pairs count and whether text is normalized can be set.
RepoSettings ==
    {st \in [minhash_num_perm : {NumPerm},
             lsh_num_bands : {1, NumPerm}, lsh_rows_per_band : {1, NumPerm},
             rolling_hash_window_size : {Window},
             similarity_threshold : {DefaultThreshold},
             similarity_max_pairs : {DefaultMaxPairs},
             similarity_max_tokens_per_file : {DefaultMaxTokens},
             similarity_cross_only : BOOLEAN,
             similarity_text_normalize : BOOLEAN,
             min_community_size : {DefaultMinCommunity}] :
        st.lsh_num_bands * st.lsh_rows_per_band = st.minhash_num_perm}

\* similarity_cross_only and similarity_text_normalize as PipelineSettings()
\* sets them
DefaultSimilaritySettings(st) ==
    st.similarity_cross_only /\ st.similarity_text_normalize

\* The files of the two repositories: a.md has single blanks between its
\* words, b.md is any text, x.js is empty or has the text of b.md.
SingleSpaced == {t \in Texts : t = join(split(t))}

RepoFiles ==
    {[fid \in SeqToSet(FileIds) |->
        CASE fid = "docs:a.md" -> a
          [] fid = "docs:b.md" -> b
          [] fid = "code:x.js" -> IF same THEN b ELSE <<>>] :
     a \in SingleSpaced, b \in Texts, same \in BOOLEAN}

RepoIdle == repo_files = <<>> /\ repo_pc = "idle"

RepoInit ==
    /\ settings \in RepoSettings
    /\ repo_files \in RepoFiles
    /\ repo_pc = "code"
    /\ signatures = <<>> /\ sim_runs = <<>>
    /\ old_files = <<>> /\ new_files = <<>> /\ todo = <<>> /\ changes = <<>>
    /\ stats = <<>> /\ files_analyzed = 0 /\ sem_pc = "idle" /\ sem_ret = NoResult

\* count_code = add_repo(code_tf, "code", per_repo_limit)
AddCodeRepo ==
    /\ repo_pc = "code"
    /\ signatures' = add_repo(signatures, repo_files, "code", settings)
    /\ repo_pc' = "docs"
    /\ UNCHANGED <<repo_files, sim_runs>>
    /\ UNCHANGED <<semVars, acVars, docVars, prioVars, comVars, anaVars, httpVars, snapVars, llmVars, updVars, e2eVars, xrefVars, zsVars, mkVars, ptVars>>

\* add_repo(docs_tf, "docs", remaining)
AddDocsRepo ==
    /\ repo_pc = "docs"
    /\ signatures' = add_repo(signatures, repo_files, "docs", settings)
    /\ repo_pc' = "edges"
    /\ UNCHANGED <<repo_files, sim_runs>>
    /\ UNCHANGED <<semVars, acVars, docVars, prioVars, comVars, anaVars, httpVars, snapVars, llmVars, updVars, e2eVars, xrefVars, zsVars, mkVars, ptVars>>

\* The orders list(candidates) can have: it is called only to truncate.
ListOrders(sigs, st) ==
    IF Cardinality(_lsh_candidates(sigs, st.lsh_num_bands, st.lsh_rows_per_band))
          > st.similarity_max_pairs
    THEN Orders(AllPairs)
    ELSE {CHOOSE order \in Orders(AllPairs) : TRUE}

\* candidates = _lsh_candidates(...) and everything after it
FindSimilarPairs ==
    /\ repo_pc = "edges"
    /\ \E list_order \in ListOrders(signatures, settings),
          loop_order \in Orders(AllPairs) :
          sim_runs' = <<analyze_similarity(signatures, settings,
                                           list_order, loop_order)>>
    /\ repo_pc' = "done"
    /\ UNCHANGED <<repo_files, signatures>>
    /\ UNCHANGED <<semVars, acVars, docVars, prioVars, comVars, anaVars, httpVars, snapVars, llmVars, updVars, e2eVars, xrefVars, zsVars, mkVars, ptVars>>

RepoNext ==
    \/ AddCodeRepo
    \/ AddDocsRepo
    \/ FindSimilarPairs

(***************************************************************************)
(* pattern_matching.py: CrossReferenceAnalyzer.analyze_cross_references on *)
(* the entities extracted from the code files and the doc files, and the   *)
(* summary pipeline.analyze_cross_references makes of it.  The automaton   *)
(* is the one modelled above, run here in one step per doc file.           *)
(***************************************************************************)
XrefDocs == <<"a.md", "b.md">>     \* doc_files in the order of the tar archive

\* The BFS of _build_failure_links from a queue on.
RECURSIVE FailureLinksFrom(_, _)
FailureLinksFrom(tr, q) ==
    IF q = <<>> THEN tr
    ELSE LET current == Head(q)
         IN FailureLinksFrom(LinkChildren(tr, current, 1),
                             Tail(q) \o [k \in 1..Len(tr[current].children) |->
                                            Child(current, tr[current].children[k])])

_build_failure_links(tr) ==
    FailureLinksFrom([nd \in DOMAIN tr |->
                         IF Len(nd) = 1 THEN [tr[nd] EXCEPT !.failure = <<Root>>]
                         ELSE tr[nd]],
                     [k \in 1..Len(tr[Root].children) |->
                         Child(Root, tr[Root].children[k])])

\* The loop of AhoCorasick.search from index i and node nd on.
RECURSIVE SearchFrom(_, _, _, _)
SearchFrom(tr, str, i, nd) ==
    IF i >= Len(str) THEN <<>>
    ELSE LET char == str[i + 1]
             back == Follow(tr, nd, char)
             next == IF HasChild(tr, back, char) THEN Child(back, char) ELSE back
         IN NewMatches(tr[next].output, str, i) \o SearchFrom(tr, str, i + 1, next)

\* AhoCorasick(patterns, case_sensitive=False).search(text)
search(pats, str) ==
    LET folded == [k \in DOMAIN pats |-> lower(pats[k])]
        tr == _build_failure_links(_build_trie(Root :> AhoCorasickNode, folded))
    IN SearchFrom(tr, lower(str), 0, Root)

\* find_references(entities, doc_content, doc_name): pattern -> its matches
find_references(order, content) ==
    IF order = <<>> THEN <<>>
    ELSE search_by_pattern(search(order, content))

\* entity_to_docs[entity].add(doc_name) for every key of refs
AddToIndex(e2d, refs, doc_name) ==
    [entity \in (DOMAIN e2d) \cup (DOMAIN refs) |->
        (IF entity \in DOMAIN e2d THEN e2d[entity] ELSE {})
        \cup (IF entity \in DOMAIN refs THEN {doc_name} ELSE {})]

\* What pipeline.analyze_cross_references returns of the analysis; the
\* lists it cuts at 20 and 50 entries are shorter than that here.
CrossReferenceSummary(all_entities, e2d, by_doc) ==
    LET documented_entities == DOMAIN e2d
        undocumented == all_entities \ documented_entities
    IN [total_entities |-> Cardinality(all_entities),
        documented_entities |-> Cardinality(documented_entities),
        undocumented_entities |-> Cardinality(undocumented),
        undocumented_list |-> undocumented,
        entity_to_docs |-> e2d,
        references_by_doc |->
            [d \in DOMAIN by_doc |->
                [entity \in DOMAIN by_doc[d] |-> Len(by_doc[d][entity])]]]

XrefIdle ==
    /\ xref_entities = {} /\ xref_order = <<>> /\ xref_docs = <<>>
    /\ xref_i = 0 /\ xref_refs = <<>> /\ xref_e2d = <<>>
    /\ xref_pc = "idle" /\ xref_ret = NoResult

XrefInit ==
    /\ xref_entities \in {E \in SUBSET Strings(1, MaxPatternLen) :
                             Cardinality(E) \in 1..MaxEntities}
    /\ xref_order \in Orders(xref_entities)
    /\ xref_docs \in [SeqToSet(XrefDocs) -> Strings(0, MaxPatternLen)]
    /\ xref_i = 1 /\ xref_refs = <<>> /\ xref_e2d = <<>>
    /\ xref_pc = "docs" /\ xref_ret = NoResult

\* for doc_name, doc_content in doc_files.items(): one round
FindReferences ==
    /\ xref_pc = "docs" /\ xref_i <= Len(XrefDocs)
    /\ LET doc_name == XrefDocs[xref_i]
           refs == find_references(xref_order, xref_docs[doc_name])
       IN IF DOMAIN refs # {}
          THEN /\ xref_refs' = (doc_name :> refs) @@ xref_refs
               /\ xref_e2d' = AddToIndex(xref_e2d, refs, doc_name)
          ELSE UNCHANGED <<xref_refs, xref_e2d, zsVars, mkVars, ptVars>>
    /\ xref_i' = xref_i + 1
    /\ UNCHANGED <<xref_entities, xref_order, xref_docs, xref_pc, xref_ret>>
    /\ UNCHANGED <<semVars, acVars, docVars, prioVars, simVars, comVars, anaVars, httpVars, snapVars, llmVars, updVars, e2eVars, repoVars, zsVars, mkVars, ptVars>>

\* The analyzer returns and pipeline.analyze_cross_references builds its summary.
SummarizeCrossReferences ==
    /\ xref_pc = "docs" /\ xref_i > Len(XrefDocs)
    /\ xref_ret' = Returns(CrossReferenceSummary(xref_entities, xref_e2d, xref_refs))
    /\ xref_pc' = "done"
    /\ UNCHANGED <<xref_entities, xref_order, xref_docs, xref_i, xref_refs, xref_e2d>>
    /\ UNCHANGED <<semVars, acVars, docVars, prioVars, simVars, comVars, anaVars, httpVars, snapVars, llmVars, updVars, e2eVars, repoVars, zsVars, mkVars, ptVars>>

XrefNext ==
    \/ FindReferences
    \/ SummarizeCrossReferences

(***************************************************************************)
(* semantic.py: ZhangShashaDistance.compute call by call.  A node is known *)
(* by the tree it is in and its path from the root (its identity, id() in  *)
(* the program: both trees are alive during the call); a frame of the      *)
(* stack is one call of _tree_distance or of _forest_distance.             *)
(***************************************************************************)
MaxZsSize == 3       \* the trees of a compute call have up to this many nodes

\* tree1 has nodes of one type, tree2 of both
RECURSIVE TypesIn(_)
TypesIn(t) == {t.type} \cup UNION {TypesIn(t.children[k]) : k \in 1..Len(t.children)}

ZsTrees1 == {t \in UNION {TreesOfSize(n) : n \in 1..MaxZsSize} : TypesIn(t) = {"a"}}
ZsTrees2 == UNION {TreesOfSize(n) : n \in 1..MaxZsSize}

RECURSIVE Sub(_, _)
Sub(tree, path) ==
    IF path = <<>> THEN tree ELSE Sub(tree.children[Head(path)], Tail(path))

NodeAt(side, path) == Sub(zs_in[side], path)

\* t.children, as identities
ChildIds(side, path) ==
    [k \in 1..Len(NodeAt(side, path).children) |-> Append(path, k)]

\* key = (id(t1), id(t1)): the second tree is not in the key
MemoKeyFirstOnly(id1, id2) == <<id1, id1>>

\* key = (id(t1), id(t2))
MemoKey(id1, id2) == <<id1, id2>>

\* sum(self._tree_cost(t) for t in forest)
RECURSIVE CostOfIds(_, _)
CostOfIds(side, ids) ==
    IF ids = <<>> THEN 0
    ELSE _tree_cost(NodeAt(side, Head(ids))) + CostOfIds(side, Tail(ids))

\* dp[0][0..n]
RECURSIVE BoundaryRow(_, _)
BoundaryRow(ids, j) ==
    IF j = 0 THEN <<0>>
    ELSE LET r == BoundaryRow(ids, j - 1)
         IN Append(r, r[j] + _tree_cost(NodeAt(2, ids[j])) * insert_cost)

TreeFrame(a, b) ==
    [fn |-> "_tree_distance", a |-> a, b |-> b, stage |-> 1, costs |-> <<>>,
     forest1 |-> <<>>, forest2 |-> <<>>, i |-> 0, prev |-> <<>>, acc |-> <<>>]

\* dp[i - 1] is prev, dp[i][0..j-1] is acc
ForestFrame(forest1, forest2) ==
    LET both == forest1 # <<>> /\ forest2 # <<>>
        row0 == BoundaryRow(forest2, Len(forest2))
    IN [fn |-> "_forest_distance", a |-> <<>>, b |-> <<>>, stage |-> 0, costs |-> <<>>,
        forest1 |-> forest1, forest2 |-> forest2, i |-> 1,
        prev |-> IF both THEN row0 ELSE <<>>,
        acc |-> IF both
                THEN <<row0[1] + _tree_cost(NodeAt(1, forest1[1])) * delete_cost>>
                ELSE <<>>]

\* the three _forest_distance calls of _tree_distance
ForestArgs(frame) ==
    CASE frame.stage = 1 -> <<ChildIds(1, frame.a), <<frame.b>>>>
      [] frame.stage = 2 -> <<(<<frame.a>>), ChildIds(2, frame.b)>>
      [] frame.stage = 3 -> <<ChildIds(1, frame.a), ChildIds(2, frame.b)>>

StageCost(frame) ==
    CASE frame.stage = 1 -> delete_cost
      [] frame.stage = 2 -> insert_cost
      [] frame.stage = 3 -> IF _nodes_equal(NodeAt(1, frame.a), NodeAt(2, frame.b))
                            THEN 0 ELSE rename_cost

\* The caller takes the value a call returned: _tree_distance as one of
\* cost1..cost3, _forest_distance as the match term of dp[i][j].
TakeValue(frame, value) ==
    IF frame.fn = "_tree_distance"
    THEN [frame EXCEPT !.costs = Append(@, StageCost(frame) + value),
                       !.stage = @ + 1]
    ELSE LET i == frame.i
             j == Len(frame.acc)
             delete == frame.prev[j + 1]
                         + _tree_cost(NodeAt(1, frame.forest1[i])) * delete_cost
             insert == frame.acc[j]
                         + _tree_cost(NodeAt(2, frame.forest2[j])) * insert_cost
             match == frame.prev[j] + value
             row == Append(frame.acc, Min3(delete, insert, match))
         IN IF Len(row) <= Len(frame.forest2) THEN [frame EXCEPT !.acc = row]
            ELSE [frame EXCEPT
                    !.i = i + 1,
                    !.prev = row,
                    !.acc = IF i + 1 <= Len(frame.forest1)
                            THEN <<row[1] + _tree_cost(NodeAt(1, frame.forest1[i + 1]))
                                              * delete_cost>>
                            ELSE <<>>]

Top == zs_stack[Len(zs_stack)]
Callers == SubSeq(zs_stack, 1, Len(zs_stack) - 1)

\* `return value`: to the calling frame, or out of compute
Return(value) ==
    IF Callers = <<>>
    THEN /\ zs_stack' = <<>>
         /\ zs_ret' = value
         /\ zs_pc' = "done"
    ELSE /\ zs_stack' = [Callers EXCEPT ![Len(Callers)] = TakeValue(@, value)]
         /\ UNCHANGED <<zs_ret, zs_pc>>

ZsIdle ==
    /\ zs_in = <<>> /\ zs_stack = <<>> /\ zs_memo = EmptyMap
    /\ zs_hits = 0 /\ zs_ret = NoValue /\ zs_pc = "idle"

\* The table may hold the entries of an earlier compute call.
ZsInit ==
    /\ zs_in \in ZsTrees1 \X ZsTrees2
    /\ zs_stack = <<>>
    /\ zs_memo \in {EmptyMap,
                    [k \in {MemoKey(<<>>, <<>>)} |->
                        [value |-> 0, pair |-> <<NoTree, NoTree>>]]}
    /\ zs_hits = 0
    /\ zs_ret = NoValue
    /\ zs_pc = "compute"

\* self.memo.clear(); distance = self._tree_distance(tree1, tree2)
ClearAndCall ==
    /\ zs_pc = "compute"
    /\ zs_memo' = EmptyMap
    /\ zs_stack' = <<TreeFrame(<<>>, <<>>)>>
    /\ zs_pc' = "run"
    /\ UNCHANGED <<zs_in, zs_hits, zs_ret>>
    /\ UNCHANGED <<semVars, acVars, docVars, prioVars, simVars, comVars, anaVars, httpVars, snapVars, llmVars, updVars, e2eVars, repoVars, xrefVars, mkVars, ptVars>>

\* `if key in self.memo: return self.memo[key]`
MemoHit ==
    /\ zs_pc = "run" /\ zs_stack # <<>>
    /\ Top.fn = "_tree_distance" /\ Top.stage = 1
    /\ MemoKey(Top.a, Top.b) \in DOMAIN zs_memo
    /\ Return(zs_memo[MemoKey(Top.a, Top.b)].value)
    /\ zs_hits' = zs_hits + 1
    /\ UNCHANGED <<zs_in, zs_memo>>
    /\ UNCHANGED <<semVars, acVars, docVars, prioVars, simVars, comVars, anaVars, httpVars, snapVars, llmVars, updVars, e2eVars, repoVars, xrefVars, mkVars, ptVars>>

\* self._forest_distance(...) of case 1, 2 or 3
CallForestDistance ==
    /\ zs_pc = "run" /\ zs_stack # <<>>
    /\ Top.fn = "_tree_distance" /\ Top.stage \in 1..3
    /\ Top.stage = 1 => MemoKey(Top.a, Top.b) \notin DOMAIN zs_memo
    /\ zs_stack' = Append(zs_stack, ForestFrame(ForestArgs(Top)[1], ForestArgs(Top)[2]))
    /\ UNCHANGED <<zs_in, zs_memo, zs_hits, zs_ret, zs_pc>>
    /\ UNCHANGED <<semVars, acVars, docVars, prioVars, simVars, comVars, anaVars, httpVars, snapVars, llmVars, updVars, e2eVars, repoVars, xrefVars, mkVars, ptVars>>

\* result = min(cost1, cost2, cost3); self.memo[key] = result; return result
ReturnTreeDistance ==
    /\ zs_pc = "run" /\ zs_stack # <<>>
    /\ Top.fn = "_tree_distance" /\ Top.stage = 4
    /\ LET result == Min3(Top.costs[1], Top.costs[2], Top.costs[3])
           key == MemoKey(Top.a, Top.b)
       IN /\ zs_memo' = [k \in DOMAIN zs_memo \cup {key} |->
                           IF k = key
                           THEN [value |-> result,
                                 pair |-> <<NodeAt(1, Top.a), NodeAt(2, Top.b)>>]
                           ELSE zs_memo[k]]
          /\ Return(result)
    /\ UNCHANGED <<zs_in, zs_hits>>
    /\ UNCHANGED <<semVars, acVars, docVars, prioVars, simVars, comVars, anaVars, httpVars, snapVars, llmVars, updVars, e2eVars, repoVars, xrefVars, mkVars, ptVars>>

\* self._tree_distance(forest1[i-1], forest2[j-1]) of the cell dp[i][j]
CallTreeDistance ==
    /\ zs_pc = "run" /\ zs_stack # <<>>
    /\ Top.fn = "_forest_distance"
    /\ Top.forest1 # <<>> /\ Top.forest2 # <<>>
    /\ Top.i <= Len(Top.forest1)
    /\ zs_stack' = Append(zs_stack,
                          TreeFrame(Top.forest1[Top.i], Top.forest2[Len(Top.acc)]))
    /\ UNCHANGED <<zs_in, zs_memo, zs_hits, zs_ret, zs_pc>>
    /\ UNCHANGED <<semVars, acVars, docVars, prioVars, simVars, comVars, anaVars, httpVars, snapVars, llmVars, updVars, e2eVars, repoVars, xrefVars, mkVars, ptVars>>

\* the three early returns and `return dp[m][n]`
ReturnForestDistance ==
    /\ zs_pc = "run" /\ zs_stack # <<>>
    /\ Top.fn = "_forest_distance"
    /\ (Top.forest1 # <<>> /\ Top.forest2 # <<>>) => Top.i > Len(Top.forest1)
    /\ Return(IF Top.forest1 = <<>> /\ Top.forest2 = <<>> THEN 0
              ELSE IF Top.forest1 = <<>>
              THEN CostOfIds(2, Top.forest2) * insert_cost
              ELSE IF Top.forest2 = <<>>
              THEN CostOfIds(1, Top.forest1) * delete_cost
              ELSE Top.prev[Len(Top.forest2) + 1])
    /\ UNCHANGED <<zs_in, zs_memo, zs_hits>>
    /\ UNCHANGED <<semVars, acVars, docVars, prioVars, simVars, comVars, anaVars, httpVars, snapVars, llmVars, updVars, e2eVars, repoVars, xrefVars, mkVars, ptVars>>

ZsNext ==
    \/ ClearAndCall
    \/ MemoHit
    \/ CallForestDistance
    \/ ReturnTreeDistance
    \/ CallTreeDistance
    \/ ReturnForestDistance

(***************************************************************************)
(* pipeline.py: merkle_root_for_bytes on two files.  SHA-256 is taken to   *)
(* be free of collisions: a digest is the term sha256(input).  An input is *)
(* the bytes of a chunk, a digest, or the concatenation of two digests;    *)
(* the files of the model hold no bytes of a digest.                       *)
(***************************************************************************)
MaxData == 4         \* a file has 0..MaxData bytes
ChunkSizes == {1, 2}
MerkleFiles == {1, 2}

DataBytes == {"x", "y"}
Datas == UNION {[1..n -> DataBytes] : n \in 0..MaxData}

sha256(input) == <<"sha256", input>>
BytesOf(data) == <<"bytes", data>>
TwoDigests(a, b) == <<"digests", a, b>>   \* a + b

\* _chunks: data[i : i + size] for i in range(0, len(data), size)
_chunks(data, chunk_size) ==
    [k \in 1..((Len(data) + chunk_size - 1) \div chunk_size) |->
        SubSeq(data, (k - 1) * chunk_size + 1, Min2(k * chunk_size, Len(data)))]

\* one pass of `while len(layer) > 1`: the last node is paired with itself
\* when the layer is odd
NextLayer(layer) ==
    [k \in 1..((Len(layer) + 1) \div 2) |->
        sha256(TwoDigests(layer[2 * k - 1],
                          IF 2 * k <= Len(layer) THEN layer[2 * k] ELSE layer[2 * k - 1]))]

MerkleIdle ==
    /\ mk_data = <<>> /\ mk_size = 0 /\ mk_layer = <<>> /\ mk_pc = <<>> /\ mk_ret = <<>>

MerkleInit ==
    /\ mk_data \in [MerkleFiles -> Datas]
    /\ mk_size \in ChunkSizes
    /\ mk_layer = [f \in MerkleFiles |-> <<>>]
    /\ mk_pc = [f \in MerkleFiles |-> "leaves"]
    /\ mk_ret = [f \in MerkleFiles |-> NoResult]

\* `if not data: return sha256(b"").hexdigest(), 0`
ReturnEmpty(f) ==
    /\ mk_pc[f] = "leaves" /\ mk_data[f] = <<>>
    /\ mk_ret' = [mk_ret EXCEPT ![f] = [root |-> sha256(BytesOf(<<>>)), num_chunks |-> 0]]
    /\ mk_pc' = [mk_pc EXCEPT ![f] = "returned"]
    /\ UNCHANGED <<mk_data, mk_size, mk_layer>>
    /\ UNCHANGED <<semVars, acVars, docVars, prioVars, simVars, comVars, anaVars, httpVars, snapVars, llmVars, updVars, e2eVars, repoVars, xrefVars, zsVars, ptVars>>

\* leaves = [sha256(c) for c in _chunks(data, chunk_size)]; layer = leaves
HashLeaves(f) ==
    /\ mk_pc[f] = "leaves" /\ mk_data[f] # <<>>
    /\ mk_layer' = [mk_layer EXCEPT ![f] =
                      [k \in 1..Len(_chunks(mk_data[f], mk_size)) |->
                          sha256(BytesOf(_chunks(mk_data[f], mk_size)[k]))]]
    /\ mk_pc' = [mk_pc EXCEPT ![f] = "while"]
    /\ UNCHANGED <<mk_data, mk_size, mk_ret>>
    /\ UNCHANGED <<semVars, acVars, docVars, prioVars, simVars, comVars, anaVars, httpVars, snapVars, llmVars, updVars, e2eVars, repoVars, xrefVars, zsVars, ptVars>>

\* the body of `while len(layer) > 1`
HashLayer(f) ==
    /\ mk_pc[f] = "while" /\ Len(mk_layer[f]) > 1
    /\ mk_layer' = [mk_layer EXCEPT ![f] = NextLayer(@)]
    /\ UNCHANGED <<mk_data, mk_size, mk_pc, mk_ret>>
    /\ UNCHANGED <<semVars, acVars, docVars, prioVars, simVars, comVars, anaVars, httpVars, snapVars, llmVars, updVars, e2eVars, repoVars, xrefVars, zsVars, ptVars>>

\* return sha256(layer[0]).hexdigest(), n_chunks (also when n_chunks == 1)
ReturnRoot(f) ==
    /\ mk_pc[f] = "while" /\ Len(mk_layer[f]) = 1
    /\ mk_ret' = [mk_ret EXCEPT ![f] =
                    [root |-> sha256(mk_layer[f][1]),
                     num_chunks |-> Len(_chunks(mk_data[f], mk_size))]]
    /\ mk_pc' = [mk_pc EXCEPT ![f] = "returned"]
    /\ UNCHANGED <<mk_data, mk_size, mk_layer>>
    /\ UNCHANGED <<semVars, acVars, docVars, prioVars, simVars, comVars, anaVars, httpVars, snapVars, llmVars, updVars, e2eVars, repoVars, xrefVars, zsVars, ptVars>>

MerkleNext ==
    \/ \E f \in MerkleFiles : ReturnEmpty(f)
    \/ \E f \in MerkleFiles : HashLeaves(f)
    \/ \E f \in MerkleFiles : HashLayer(f)
    \/ \E f \in MerkleFiles : ReturnRoot(f)

(***************************************************************************)
(* local_git_adapter.py: patch_pipeline_for_local_git, called by the       *)
(* constructor of HotPathAnalyzer.  A function value is 0, the def of      *)
(* pipeline.py, or k > 0, the wrapper pt_closures[k] with its adapter and  *)
(* the original_* it captured.  Python runs one call at a time: no         *)
(* analyzer is constructed while a call is in progress.                    *)
(***************************************************************************)
MaxAnalyzers == 3    \* HotPathAnalyzer objects constructed

AnalyzerRepoPaths == {"/work/a", "/work/b"}
ApiBases == {"local", "https://api.github.com"}
PatchTokens == {"None"}
PatchSlugs == {"owner/code"}
PatchRefs == {"main", "HEAD~1"}

\* the four names rebound, in the order of the assignments
PatchedNames == <<"_get_repo_tarball", "list_repo_tree", "_get_commit_sha", "_get_default_branch">>

\* the method of LocalGitAdapter a wrapper calls
AdapterMethod(fn) ==
    CASE fn = "_get_repo_tarball" -> "get_tarball"
      [] fn = "list_repo_tree" -> "list_tree"
      [] fn = "_get_commit_sha" -> "get_commit_sha"
      [] fn = "_get_default_branch" -> "get_default_branch"

\* (api_base, token, slug, ref); _get_default_branch takes no ref
ArgumentsOf(fn) ==
    IF fn = "_get_default_branch"
    THEN {<<a, t, s>> : a \in ApiBases, t \in PatchTokens, s \in PatchSlugs}
    ELSE {<<a, t, s, r>> : a \in ApiBases, t \in PatchTokens, s \in PatchSlugs, r \in PatchRefs}

\* adapter.get_tarball(ref), adapter.list_tree(branch), adapter.get_commit_sha(branch),
\* adapter.get_default_branch()
AdapterArguments(fn, args) == IF fn = "_get_default_branch" THEN <<>> ELSE <<args[4]>>

\* original_*(api_base, token, slug, ref)
PassedOn(args) == [k \in 1..Len(args) |-> args[k]]

IsLocalAlways(api_base) == TRUE
\* `if api_base == "local":`
IsLocal(api_base) == api_base = "local"

NoCall == [fn |-> "", args |-> <<>>, patched |-> 0]
NoAnswer == [by |-> "", adapter |-> 0, method |-> "", args |-> <<>>]

PatchIdle ==
    /\ pt_adapters = <<>> /\ pt_closures = <<>> /\ pt_pipeline = <<>>
    /\ pt_call = NoCall /\ pt_at = 0 /\ pt_args = <<>> /\ pt_pc = "off" /\ pt_ret = NoAnswer

\* pipeline is imported, no analyzer is constructed yet
PatchInit ==
    /\ pt_adapters = <<>> /\ pt_closures = <<>>
    /\ pt_pipeline = [k \in 1..Len(PatchedNames) |-> 0]
    /\ pt_call = NoCall /\ pt_at = 0 /\ pt_args = <<>> /\ pt_pc = "idle" /\ pt_ret = NoAnswer

\* HotPathAnalyzer.__init__: self.adapter = LocalGitAdapter(repo_path);
\* patch_pipeline_for_local_git(self.adapter) reads the four attributes,
\* makes the four wrappers and rebinds the attributes to them
NewHotPathAnalyzer(repo_path) ==
    /\ pt_pc \in {"idle", "returned"}
    /\ Len(pt_adapters) < MaxAnalyzers
    /\ pt_adapters' = Append(pt_adapters, repo_path)
    /\ pt_closures' = pt_closures \o
           [k \in 1..Len(PatchedNames) |->
               [fn |-> PatchedNames[k], adapter |-> Len(pt_adapters) + 1, original |-> pt_pipeline[k]]]
    /\ pt_pipeline' = [k \in 1..Len(PatchedNames) |-> Len(pt_closures) + k]
    /\ UNCHANGED <<pt_call, pt_at, pt_args, pt_pc, pt_ret>>
    /\ UNCHANGED <<semVars, acVars, docVars, prioVars, simVars, comVars, anaVars, httpVars, snapVars, llmVars, updVars, e2eVars, repoVars, xrefVars, zsVars, mkVars>>

\* pipeline.<name>(api_base, token, slug[, ref]): the attribute is looked up at the call
CallPipeline(k, args) ==
    /\ pt_pc \in {"idle", "returned"}
    /\ pt_call' = [fn |-> PatchedNames[k], args |-> args, patched |-> Len(pt_adapters)]
    /\ pt_at' = pt_pipeline[k]
    /\ pt_args' = args
    /\ pt_pc' = "called"
    /\ pt_ret' = NoAnswer
    /\ UNCHANGED <<pt_adapters, pt_closures, pt_pipeline>>
    /\ UNCHANGED <<semVars, acVars, docVars, prioVars, simVars, comVars, anaVars, httpVars, snapVars, llmVars, updVars, e2eVars, repoVars, xrefVars, zsVars, mkVars>>

\* a wrapper, api_base == "local": return adapter.<method>(ref)
LocalWrapperAnswers ==
    /\ pt_pc = "called" /\ pt_at > 0
    /\ IsLocal(pt_args[1])
    /\ pt_ret' = [by |-> "adapter", adapter |-> pt_closures[pt_at].adapter,
                  method |-> AdapterMethod(pt_closures[pt_at].fn),
                  args |-> AdapterArguments(pt_closures[pt_at].fn, pt_args)]
    /\ pt_pc' = "returned"
    /\ UNCHANGED <<pt_adapters, pt_closures, pt_pipeline, pt_call, pt_at, pt_args>>
    /\ UNCHANGED <<semVars, acVars, docVars, prioVars, simVars, comVars, anaVars, httpVars, snapVars, llmVars, updVars, e2eVars, repoVars, xrefVars, zsVars, mkVars>>

\* a wrapper, any other api_base: return original_*(api_base, token, slug, ref)
LocalWrapperDelegates ==
    /\ pt_pc = "called" /\ pt_at > 0
    /\ ~IsLocal(pt_args[1])
    /\ pt_at' = pt_closures[pt_at].original
    /\ pt_args' = PassedOn(pt_args)
    /\ UNCHANGED <<pt_adapters, pt_closures, pt_pipeline, pt_call, pt_pc, pt_ret>>
    /\ UNCHANGED <<semVars, acVars, docVars, prioVars, simVars, comVars, anaVars, httpVars, snapVars, llmVars, updVars, e2eVars, repoVars, xrefVars, zsVars, mkVars>>

\* the def of pipeline.py is reached: the remote implementation
OriginalRemote ==
    /\ pt_pc = "called" /\ pt_at = 0
    /\ pt_ret' = [by |-> "remote", adapter |-> 0, method |-> pt_call.fn, args |-> pt_args]
    /\ pt_pc' = "returned"
    /\ UNCHANGED <<pt_adapters, pt_closures, pt_pipeline, pt_call, pt_at, pt_args>>
    /\ UNCHANGED <<semVars, acVars, docVars, prioVars, simVars, comVars, anaVars, httpVars, snapVars, llmVars, updVars, e2eVars, repoVars, xrefVars, zsVars, mkVars>>

PatchNext ==
    \/ \E repo_path \in AnalyzerRepoPaths : NewHotPathAnalyzer(repo_path)
    \/ \E k \in 1..Len(PatchedNames) : \E args \in ArgumentsOf(PatchedNames[k]) : CallPipeline(k, args)
    \/ LocalWrapperAnswers
    \/ LocalWrapperDelegates
    \/ OriginalRemote

(***************************************************************************)
(* The specifications: one layer runs, the others stay idle.               *)
(***************************************************************************)
InitSem == SemInit /\ ACIdle /\ DocIdle /\ PrioIdle /\ SimIdle /\ ComIdle /\ AnaIdle /\ HttpIdle /\ SnapIdle /\ LlmIdle /\ UpdIdle /\ E2EIdle /\ RepoIdle /\ XrefIdle /\ ZsIdle /\ MerkleIdle /\ PatchIdle
SpecSem == InitSem /\ [][SemNext]_vars

InitAC == ACInit /\ SemIdle /\ DocIdle /\ PrioIdle /\ SimIdle /\ ComIdle /\ AnaIdle /\ HttpIdle /\ SnapIdle /\ LlmIdle /\ UpdIdle /\ E2EIdle /\ RepoIdle /\ XrefIdle /\ ZsIdle /\ MerkleIdle /\ PatchIdle
SpecAC == InitAC /\ [][ACNext]_vars

InitDoc == DocInit /\ SemIdle /\ ACIdle /\ PrioIdle /\ SimIdle /\ ComIdle /\ AnaIdle /\ HttpIdle /\ SnapIdle /\ LlmIdle /\ UpdIdle /\ E2EIdle /\ RepoIdle /\ XrefIdle /\ ZsIdle /\ MerkleIdle /\ PatchIdle
SpecDoc == InitDoc /\ [][DocNext]_vars

InitPrio == PrioInit /\ SemIdle /\ ACIdle /\ DocIdle /\ SimIdle /\ ComIdle /\ AnaIdle /\ HttpIdle /\ SnapIdle /\ LlmIdle /\ UpdIdle /\ E2EIdle /\ RepoIdle /\ XrefIdle /\ ZsIdle /\ MerkleIdle /\ PatchIdle
SpecPrio == InitPrio /\ [][PrioNext]_vars

InitSim == SimInit /\ ACIdle /\ DocIdle /\ PrioIdle /\ ComIdle /\ AnaIdle /\ HttpIdle /\ SnapIdle /\ LlmIdle /\ UpdIdle /\ E2EIdle /\ RepoIdle /\ XrefIdle /\ ZsIdle /\ MerkleIdle /\ PatchIdle
SpecSim == InitSim /\ [][SimNext]_vars

InitCom == ComInit /\ ACIdle /\ DocIdle /\ PrioIdle /\ SimIdle /\ AnaIdle /\ HttpIdle /\ SnapIdle /\ LlmIdle /\ UpdIdle /\ E2EIdle /\ RepoIdle /\ XrefIdle /\ ZsIdle /\ MerkleIdle /\ PatchIdle
SpecCom == InitCom /\ [][ComNext]_vars

InitAna == AnaInit /\ SemIdle /\ ACIdle /\ DocIdle /\ PrioIdle /\ SimIdle /\ ComIdle /\ HttpIdle /\ SnapIdle /\ LlmIdle /\ UpdIdle /\ E2EIdle /\ RepoIdle /\ XrefIdle /\ ZsIdle /\ MerkleIdle /\ PatchIdle
SpecAna == InitAna /\ [][AnaNext]_vars

InitResolve == ResolveInit /\ SemIdle /\ ACIdle /\ DocIdle /\ PrioIdle /\ SimIdle /\ ComIdle /\ AnaIdle /\ SnapIdle /\ LlmIdle /\ UpdIdle /\ E2EIdle /\ RepoIdle /\ XrefIdle /\ ZsIdle /\ MerkleIdle /\ PatchIdle
SpecResolve == InitResolve /\ [][ResolveNext]_vars

InitFetch == FetchInit /\ SemIdle /\ ACIdle /\ DocIdle /\ PrioIdle /\ SimIdle /\ ComIdle /\ AnaIdle /\ SnapIdle /\ LlmIdle /\ UpdIdle /\ E2EIdle /\ RepoIdle /\ XrefIdle /\ ZsIdle /\ MerkleIdle /\ PatchIdle
SpecFetch == InitFetch /\ [][FetchNext]_vars

\* Repeated runs of the pipeline's layers on the same snapshots and settings:
\* the similarity layer or the documentation prioritisation.
InitRuns ==
    \/ SimInit /\ ACIdle /\ DocIdle /\ PrioIdle /\ ComIdle /\ AnaIdle /\ HttpIdle /\ SnapIdle /\ LlmIdle /\ UpdIdle /\ E2EIdle /\ RepoIdle /\ XrefIdle /\ ZsIdle /\ MerkleIdle /\ PatchIdle
    \/ PrioInit /\ SemIdle /\ ACIdle /\ DocIdle /\ SimIdle /\ ComIdle /\ AnaIdle /\ HttpIdle /\ SnapIdle /\ LlmIdle /\ UpdIdle /\ E2EIdle /\ RepoIdle /\ XrefIdle /\ ZsIdle /\ MerkleIdle /\ PatchIdle
RunsNext == AnalyzeSimilarity \/ Prioritize
SpecRuns == InitRuns /\ [][RunsNext]_vars

InitSnap == SnapInit /\ SemIdle /\ ACIdle /\ DocIdle /\ PrioIdle /\ SimIdle /\ ComIdle /\ AnaIdle /\ HttpIdle /\ LlmIdle /\ UpdIdle /\ E2EIdle /\ RepoIdle /\ XrefIdle /\ ZsIdle /\ MerkleIdle /\ PatchIdle
SpecSnap == InitSnap /\ [][SnapNext]_vars

InitLlm == LlmInit /\ SemIdle /\ ACIdle /\ DocIdle /\ PrioIdle /\ SimIdle /\ ComIdle /\ AnaIdle /\ HttpIdle /\ SnapIdle /\ UpdIdle /\ E2EIdle /\ RepoIdle /\ XrefIdle /\ ZsIdle /\ MerkleIdle /\ PatchIdle
SpecLlm == InitLlm /\ [][LlmNext]_vars

InitUpd == UpdInit /\ SemIdle /\ ACIdle /\ DocIdle /\ PrioIdle /\ SimIdle /\ ComIdle /\ AnaIdle /\ HttpIdle /\ SnapIdle /\ LlmIdle /\ E2EIdle /\ RepoIdle /\ XrefIdle /\ ZsIdle /\ MerkleIdle /\ PatchIdle
SpecUpd == InitUpd /\ [][UpdNext]_vars
\* main runs to its end: the loop of generate_llm_documentation goes on to its
\* next change and returns, and the loop of main goes on to its next doc file.
GenerateStep == SkipDocumented \/ DropLowConfidence \/ StoreSuggestion \/ ReturnGrouped
NextDocFile == upd_pc = "write" /\ upd_w' = upd_w + 1
SpecUpdFair == SpecUpd /\ WF_vars(GenerateStep) /\ WF_upd_w(NextDocFile)

InitE2E == E2EInit /\ SemIdle /\ ACIdle /\ DocIdle /\ SimIdle /\ ComIdle /\ AnaIdle /\ HttpIdle /\ SnapIdle /\ LlmIdle /\ UpdIdle /\ RepoIdle /\ XrefIdle /\ ZsIdle /\ MerkleIdle /\ PatchIdle
SpecE2E == InitE2E /\ [][E2ENext]_vars

\* analyze_similarity from the tar archives on.
InitRepo == RepoInit /\ ACIdle /\ DocIdle /\ PrioIdle /\ ComIdle /\ AnaIdle /\ HttpIdle /\ SnapIdle /\ LlmIdle /\ UpdIdle /\ E2EIdle /\ XrefIdle /\ ZsIdle /\ MerkleIdle /\ PatchIdle
SpecRepo == InitRepo /\ [][RepoNext]_vars

\* analyze_cross_references over the doc files.
InitXref == XrefInit /\ SemIdle /\ ACIdle /\ DocIdle /\ PrioIdle /\ SimIdle /\ ComIdle /\ AnaIdle /\ HttpIdle /\ SnapIdle /\ LlmIdle /\ UpdIdle /\ E2EIdle /\ RepoIdle /\ ZsIdle /\ MerkleIdle /\ PatchIdle
SpecXref == InitXref /\ [][XrefNext]_vars

\* ZhangShashaDistance.compute, call by call; every call in progress goes on.
InitZs == ZsInit /\ SemIdle /\ ACIdle /\ DocIdle /\ PrioIdle /\ SimIdle /\ ComIdle /\ AnaIdle /\ HttpIdle /\ SnapIdle /\ LlmIdle /\ UpdIdle /\ E2EIdle /\ RepoIdle /\ XrefIdle /\ MerkleIdle /\ PatchIdle
SpecZs == InitZs /\ [][ZsNext]_vars /\ WF_vars(ZsNext)

\* merkle_root_for_bytes on two files under one chunk size.
InitMerkle == MerkleInit /\ SemIdle /\ ACIdle /\ DocIdle /\ PrioIdle /\ SimIdle /\ ComIdle /\ AnaIdle /\ HttpIdle /\ SnapIdle /\ LlmIdle /\ UpdIdle /\ E2EIdle /\ RepoIdle /\ XrefIdle /\ ZsIdle /\ PatchIdle
SpecMerkle == InitMerkle /\ [][MerkleNext]_vars

\* HotPathAnalyzer objects are constructed and the rebound functions called.
InitPatch == PatchInit /\ SemIdle /\ ACIdle /\ DocIdle /\ PrioIdle /\ SimIdle /\ ComIdle /\ AnaIdle /\ HttpIdle /\ SnapIdle /\ LlmIdle /\ UpdIdle /\ E2EIdle /\ RepoIdle /\ XrefIdle /\ ZsIdle /\ MerkleIdle
SpecPatch == InitPatch /\ [][PatchNext]_vars

(***************************************************************************)
(* Claims about the semantic layer                                         *)
(***************************************************************************)
NeedsDocTypes == {"minor", "major", "rewrite"}

\* C1: every change record has needs_doc_update true exactly when its
\* change_type is minor, major or rewrite (false exactly for identical and
\* refactor); the same holds of the parse-failure record of analyze_change.
C1_NeedsDocEquivalence ==
    /\ \A i \in 1..Len(changes) :
          /\ changes[i].change_type \in ChangeTypes
          /\ changes[i].needs_doc_update <=> changes[i].change_type \in NeedsDocTypes
          /\ ~changes[i].needs_doc_update <=>
                changes[i].change_type \in {"identical", "refactor"}
    /\ should_update_documentation(analyze_change(NoTree, NoTree,
                                                  threshold_refactor,
                                                  DefaultThresholdMinor,
                                                  threshold_major))
          <=> ParseFailure.change_type \in NeedsDocTypes

\* A minor change was recorded and flagged.
C1_Witness ==
    /\ sem_pc = "done"
    /\ \E i \in 1..Len(changes) :
          changes[i].change_type = "minor" /\ changes[i].needs_doc_update

(***************************************************************************)
(* The tree edit distance: the cost of a cheapest sequence of node         *)
(* insertions, deletions and renamings.  Deleting a node gives its         *)
(* children to its parent, in its place; inserting is the inverse.  The    *)
(* recursion is on the rightmost roots v, w of two forests: v is deleted,  *)
(* or w is inserted, or v is mapped to w and then the forest below v is    *)
(* edited into the forest below w and the rest into the rest.              *)
(***************************************************************************)
Front(s) == SubSeq(s, 1, Len(s) - 1)
Last(s) == s[Len(s)]

RECURSIVE ForestEditDistance(_, _)
ForestEditDistance(f1, f2) ==
    IF f1 = <<>> /\ f2 = <<>> THEN 0
    ELSE IF f1 = <<>>
    THEN insert_cost + ForestEditDistance(f1, Front(f2) \o Last(f2).children)
    ELSE IF f2 = <<>>
    THEN delete_cost + ForestEditDistance(Front(f1) \o Last(f1).children, f2)
    ELSE
        LET v == Last(f1)
            w == Last(f2)
        IN Min3(delete_cost + ForestEditDistance(Front(f1) \o v.children, f2),
                insert_cost + ForestEditDistance(f1, Front(f2) \o w.children),
                (IF v.type = w.type /\ (v.children # <<>> \/ w.children # <<>>
                                        \/ v.value = w.value)
                 THEN 0 ELSE rename_cost)
                + ForestEditDistance(v.children, w.children)
                + ForestEditDistance(Front(f1), Front(f2)))

TreeEditDistance(t1, t2) == ForestEditDistance(<<t1>>, <<t2>>)

OldTree(path) == old_files[path].ast
NewTree(path) == new_files[path].ast

\* C3: the distance compute returns for two trees (of at most MaxTreeSize
\* nodes) is the cost of a cheapest edit sequence from the one to the other.
C3_MinimumCost ==
    \A i \in 1..Len(changes) :
       changes[i].size_old <= MaxTreeSize /\ changes[i].size_new <= MaxTreeSize
       => changes[i].distance = TreeEditDistance(OldTree(changes[i].path),
                                                 NewTree(changes[i].path))

\* The two trees given to compute differ (a(b(a,a)) against a(a,a) among them).
C3_Witness ==
    /\ changes # <<>>
    /\ changes[1].size_old = MaxTreeSize
    /\ changes[1].size_new < MaxTreeSize
    /\ changes[1].distance > 0

Severity ==
    [t \in ChangeTypes |->
        CASE t = "identical" -> 0
          [] t = "refactor" -> 1
          [] t = "minor" -> 2
          [] t = "major" -> 3
          [] t = "rewrite" -> 4]

MaxNodes == 1 + 3 * MaxBranches   \* the largest tree of the model

\* The bucket of the normalized distance d/m under threshold_minor tm, as the
\* documentation states it.
Bucket(d, m, tm) ==
    IF 1000 * d < m THEN "identical"
    ELSE IF 10 * d <= m THEN "refactor"
    ELSE IF 1000 * d <= tm * m THEN "minor"
    ELSE IF 10 * d <= 6 * m THEN "major"
    ELSE "rewrite"

\* C6: the change type of a record is the bucket of distance / max(size_old,
\* size_new): below 0.001 identical, else up to 0.1 refactor, else up to
\* threshold_minor minor, else up to 0.6 major, else rewrite; it is one of the
\* five classes, and no larger normalized distance has a less severe class.
C6_Bucketing ==
    \A i \in 1..Len(changes) :
       LET c == changes[i]
           d == c.distance
           m == Max2(c.size_old, c.size_new)
           tm == settings.tree_edit_distance_threshold
       IN /\ c.change_type \in ChangeTypes
          /\ c.change_type = Bucket(d, m, tm)
          /\ c.normalized_distance = Round4(d, m)
          /\ \A d2 \in 0..(2 * MaxNodes), m2 \in 1..MaxNodes :
                d * m2 <= d2 * m
                => Severity[c.change_type]
                     <= Severity[Classify(d2, m2, threshold_refactor, tm,
                                          threshold_major)]

\* A change whose normalized distance is exactly 0.1 was classified refactor.
C6_Witness ==
    /\ changes # <<>>
    /\ 10 * changes[1].distance = Max2(changes[1].size_old, changes[1].size_new)
    /\ changes[1].change_type = "refactor"

\* Every class is assigned to some change.
C6_WitnessRewrite ==
    /\ changes # <<>>
    /\ changes[1].change_type = "rewrite"

\* C7: a file whose old and new text are equal gets no change record and is not
\* flagged (it is counted identical); and when the old and the new tree are
\* structurally equal, compute returns 0 and analyze_change says identical, so
\* that the record is not flagged either.
C7_EqualVersions ==
    /\ old_files[CodePath] = new_files[CodePath]
       => /\ changes = <<>>
          /\ sem_pc = "done"
             => /\ sem_ret.changes = <<>>
                /\ sem_ret.needs_doc_update = <<>>
                /\ sem_ret.needs_doc_update_count = 0
                /\ sem_ret.summary["identical"] <= 1
                /\ \A t \in ChangeTypes \ {"identical"} : sem_ret.summary[t] = 0
    /\ \A i \in 1..Len(changes) :
          OldTree(changes[i].path) = NewTree(changes[i].path)
          => /\ changes[i].distance = 0
             /\ changes[i].normalized_distance = 0
             /\ changes[i].change_type = "identical"
             /\ ~changes[i].needs_doc_update
    /\ sem_pc = "done"
       => \A i \in 1..Len(sem_ret.needs_doc_update) :
             OldTree(sem_ret.needs_doc_update[i]) # NewTree(sem_ret.needs_doc_update[i])

\* Two texts with equal trees of MaxTreeSize nodes were compared.
C7_Witness ==
    /\ sem_pc = "done"
    /\ changes # <<>>
    /\ OldTree(CodePath) = NewTree(CodePath)
    /\ changes[1].size_old = MaxTreeSize
    /\ changes[1].change_type = "identical"

(***************************************************************************)
(* Claims about the cross-reference matcher                                *)
(***************************************************************************)
\* Entity e occurs in the document at the 0-based position i, letter case aside.
Occurs(e, i) ==
    /\ i + Len(e) <= Len(doc_content)
    /\ SubSeq(lower(doc_content), i + 1, i + Len(e)) = lower(e)

\* How many of the returned matches report pattern at position i.
Reported(pattern, i) ==
    Cardinality({k \in 1..Len(ac_ret.matches) :
                    /\ ac_ret.matches[k].pattern = pattern
                    /\ ac_ret.matches[k].start = i})

\* C2: the list search returns holds every occurrence of every entity in the
\* document exactly once (under its pattern, the entity in lower case), and
\* nothing that is not an occurrence.
C2_Completeness ==
    ac_pc = "done"
    => /\ \A e \in entities, i \in 0..Len(doc_content) :
             Reported(lower(e), i) = IF Occurs(e, i) THEN 1 ELSE 0
       /\ \A k \in 1..Len(ac_ret.matches) :
             LET mt == ac_ret.matches[k]
             IN /\ mt.end = mt.start + Len(mt.pattern)
                /\ \E e \in entities : lower(e) = mt.pattern /\ Occurs(e, mt.start)

\* Two entities that differ by letter case only were searched for in a document
\* in which they occur.
C2_Witness ==
    /\ ac_pc = "done"
    /\ \E e1, e2 \in entities : e1 # e2 /\ lower(e1) = lower(e2) /\ Occurs(e1, 0)

(***************************************************************************)
(* Claims about the doc writer                                             *)
(***************************************************************************)
\* C4: calling append_documentation a second time with the same sections
\* leaves the doc file as the first call left it.
C4_Idempotent ==
    Len(written) >= 2 => written[2] = written[1]

\* One section of prose was written twice to a doc file that did not exist;
\* it is the last section of the file after both calls.
C4_Witness ==
    /\ Len(written) = 2
    /\ Len(sections) = 1
    /\ sections[1].content = <<"text">>
    /\ ~Contains(written[1], <<"prose">>) /\ ~Contains(written[1], <<"old">>)
    /\ Contains(written[1], <<"#", " ", Title>>)
    /\ Contains(written[1], NewSection(sections[1]))
    /\ Contains(written[2], NewSection(sections[1]))

(***************************************************************************)
(* Claims about the impact scorer                                          *)
(***************************************************************************)
\* The docs a run returned (none if it raised).
Returned(r) == IF prio_runs[r].raised THEN <<>> ELSE prio_runs[r].impacted_docs

SameScore(s1, s2) == s1.num * s2.den = s2.num * s1.den

\* C8: the returned list is sorted by score, highest first, and docs of equal
\* score are in ascending order of doc_path.
C8_SortedTiesByPath ==
    \A r \in 1..Len(prio_runs) :
       \A i, j \in 1..Len(Returned(r)) :
          i < j =>
             /\ ~ScoreLess(Returned(r)[i].score, Returned(r)[j].score)
             /\ SameScore(Returned(r)[i].score, Returned(r)[j].score)
                => DocRank(Returned(r)[i].doc_path) < DocRank(Returned(r)[j].doc_path)

\* Two docs of equal score were returned.
C8_Witness ==
    \E r \in 1..Len(prio_runs) :
       /\ Len(Returned(r)) = 2
       /\ SameScore(Returned(r)[1].score, Returned(r)[2].score)

\* The severities added up for a doc: one per reason.
RECURSIVE SeveritySum(_)
SeveritySum(reasons) ==
    IF reasons = <<>> THEN 0
    ELSE severity_scores[Head(reasons)[2]] + SeveritySum(Tail(reasons))

PriorityRank(p) == CASE p = "LOW" -> 0 [] p = "MEDIUM" -> 1 [] p = "HIGH" -> 2

\* C9: for every returned doc, with n its number of changed entities,
\* avg_severity = severity_sum / n, and M its total mentions, c its
\* community size: score = 2 * avg_severity + 1.5 * M + 0.5 * c (that is,
\* 2n * score = 4 * severity_sum + 3nM + nc); the priority is HIGH iff
\* score > 5, MEDIUM iff 2 <= score <= 5, LOW iff score < 2; and raising the
\* severity, the mentions or the community size lowers neither score nor
\* priority.
C9_ScoreAndPriority ==
    \A r \in 1..Len(prio_runs) :
       \A i \in 1..Len(Returned(r)) :
          LET d == Returned(r)[i]
              n == Max2(Len(d.changed_entities), 1)
              sev == SeveritySum(d.reasons)
              M == SumCounts(d.mention_counts)
              c == d.community_size
          IN /\ d.score.num * 2 * n = (4 * sev + 3 * n * M + n * c) * d.score.den
             /\ d.priority = "HIGH" <=> d.score.num > 5 * d.score.den
             /\ d.priority = "MEDIUM" <=> /\ 2 * d.score.den <= d.score.num
                                          /\ d.score.num <= 5 * d.score.den
             /\ d.priority = "LOW" <=> d.score.num < 2 * d.score.den
             /\ \A ds, dm, dc \in 0..2 :
                   LET more == Score(sev + ds, n, M + dm, c + dc)
                   IN /\ ~ScoreLess(more, d.score)
                      /\ PriorityRank(PriorityOf(more)) >= PriorityRank(d.priority)

\* A doc with score exactly 5 was returned (MEDIUM), and one with a higher score.
C9_Witness ==
    \E r \in 1..Len(prio_runs) :
       /\ \E i \in 1..Len(Returned(r)) :
             /\ Returned(r)[i].score.num = 5 * Returned(r)[i].score.den
             /\ Returned(r)[i].priority = "MEDIUM"
       /\ \E i \in 1..Len(Returned(r)) : Returned(r)[i].priority = "HIGH"


\* C5: two runs of the pipeline on the same snapshots and settings return the
\* same result (timing fields are not modelled): the same similarity result,
\* top_pairs order included, and the same ImpactedDoc list, changed_entities
\* order included, whatever the iteration order of the sets.
C5_Determinism ==
    /\ Len(sim_runs) = MaxRuns => sim_runs[1] = sim_runs[MaxRuns]
    /\ Len(prio_runs) = MaxRuns => prio_runs[1] = prio_runs[MaxRuns]

C5_Witness ==
    /\ Len(sim_runs) = MaxRuns
    /\ sim_runs[1].truncated_pairs
    /\ sim_runs[1].edges = 1 /\ sim_runs[MaxRuns].edges = 0

\* The parts of C5 about the similarity layer, one by one: the same set of
\* verified pairs, and the same order of top_pairs for the same set.
C5_SameSimilarPairs ==
    Len(sim_runs) = MaxRuns =>
        SeqToSet(sim_runs[1].top_pairs) = SeqToSet(sim_runs[MaxRuns].top_pairs)

C5_SameTopPairsOrder ==
    (/\ Len(sim_runs) = MaxRuns
     /\ SeqToSet(sim_runs[1].top_pairs) = SeqToSet(sim_runs[MaxRuns].top_pairs))
    => sim_runs[1].top_pairs = sim_runs[MaxRuns].top_pairs

\* The communities before the min_community_size filter
AllCommunities == {comm_map[lab] : lab \in DOMAIN comm_map}

\* C10: before the min_community_size filter the communities are pairwise
\* disjoint, and their union is the node set of the call graph: every function
\* node and every file-scope node created during the graph build, those without
\* edges included.
C10_Partition ==
    com_pc = "done" =>
        /\ \A c1 \in AllCommunities : \A c2 \in AllCommunities \ {c1} : c1 \cap c2 = {}
        /\ UNION AllCommunities = nodes_meta

C10_Witness ==
    /\ com_pc = "done"
    /\ Cardinality(AllCommunities) = 2
    /\ UNION AllCommunities = nodes_meta

\* The parts of C10 that hold: the communities are pairwise disjoint and not
\* empty, and their union is the node set of the symmetrized graph.
C10_PartitionOfConnected ==
    com_pc = "done" =>
        /\ \A c1 \in AllCommunities : \A c2 \in AllCommunities \ {c1} : c1 \cap c2 = {}
        /\ {} \notin AllCommunities
        /\ UNION AllCommunities = DOMAIN undirected
        /\ DOMAIN undirected \subseteq nodes_meta

\* The rows (1-based) of band bidx of a signature of k rows under the settings
\* st: rows_per_band shrinks when the bands would not fit into the signature.
BandRows(st, k, bidx) ==
    LET rows == IF st.lsh_num_bands * st.lsh_rows_per_band > k
                THEN Max2(1, k \div Max2(1, st.lsh_num_bands))
                ELSE st.lsh_rows_per_band
    IN (bidx * rows + 1)..Min2(bidx * rows + rows, k)

ShareBand(st, sig_a, sig_b) ==
    \E bidx \in 0..(st.lsh_num_bands - 1) :
        /\ BandRows(st, Len(sig_a), bidx) # {}
        /\ \A r \in BandRows(st, Len(sig_a), bidx) : sig_a[r] = sig_b[r]

ReportedEdges == UNION {SeqToSet(sim_runs[k].top_pairs) : k \in DOMAIN sim_runs}

\* C11: every pair analyze_similarity reports as an edge has a similarity of
\* at least similarity_threshold and is a pair (a, b), a < b, of two distinct
\* files whose signatures agree on every row of at least one band.
C11_LshSoundness ==
    \A e \in ReportedEdges :
        /\ e[1] # e[2] /\ IdRank(e[1]) < IdRank(e[2])
        /\ 1000 * e[3] >= settings.similarity_threshold * NumPerm
        /\ ShareBand(settings, signatures[e[1]], signatures[e[2]])

\* an edge of two signatures that agree on one band and differ on another
C11_Witness ==
    \E e \in ReportedEdges :
        /\ settings.lsh_num_bands = NumPerm /\ settings.lsh_rows_per_band = 1
        /\ e[3] < NumPerm

IsPrefix(seq, of) == Len(seq) <= Len(of) /\ \A k \in 1..Len(seq) : seq[k] = of[k]

\* C12: analyze_changes calls the layers in the order semantic, communities,
\* cross-references, similarity.  An exception of the community layer or of
\* the similarity layer does not leave analyze_changes: the next layer (or the
\* construction of the result) follows, and the AnalysisResult returned has
\* communities = [] and an empty community_map, or similar_pairs = [].
C12_LayerOrderAndTolerance ==
    /\ IsPrefix(ana_calls, LayerOrder)
    /\ (Len(ana_calls) = 2 /\ ana_layers.analyze_communities.raised)
          => ana_pc = "analyze_cross_references"
    /\ (Len(ana_calls) = 4 /\ ana_layers.analyze_similarity.raised)
          => ana_pc \in {"result", "returned"}
    /\ ana_pc = "raised" =>
          /\ ana_layers[ana_calls[Len(ana_calls)]].raised
          /\ ana_calls[Len(ana_calls)] \in {"analyze_semantic_diff", "analyze_cross_references"}
    /\ ana_pc = "returned" =>
          /\ ana_calls = LayerOrder
          /\ ana_ret.returned
          /\ ana_layers.analyze_communities.raised =>
                ana_ret.communities = <<>> /\ DOMAIN ana_ret.community_map = {}
          /\ ana_layers.analyze_similarity.raised => ana_ret.similar_pairs = <<>>
          /\ ~ana_layers.analyze_communities.raised =>
                ana_ret.communities = ana_layers.analyze_communities.value
          /\ ~ana_layers.analyze_similarity.raised =>
                ana_ret.similar_pairs = ana_layers.analyze_similarity.value

\* both tolerated layers raised, the other two returned changes and
\* cross-references, and the result was returned
C12_Witness ==
    /\ ana_pc = "returned"
    /\ ana_layers.analyze_communities.raised
    /\ ana_layers.analyze_similarity.raised
    /\ Len(ana_ret.changed_files) > 0
    /\ DOMAIN ana_ret.cross_refs # {}
    /\ ana_warnings = <<"analyze_communities", "analyze_similarity">>

\* the error of the first request of _resolve_branch_with_fallback, if any
FirstError == _get_commit_sha(rb_branch, http_log[1].resp)
IsNotFound(resp) ==
    \/ resp.kind = "http" /\ resp.code = "404"
    \/ resp.kind = "ok" /\ resp.json.sha = NoValue

\* C14: _resolve_branch_with_fallback falls back at most once: a branch that
\* resolves is returned without a query of the default branch; after an HTTP
\* 404 or a 'Could not resolve branch' the default branch is returned; any
\* other error is raised as it is, without a query of the default branch; a
\* failure of the query of the default branch is raised without a retry.
C14_SingleFallback ==
    /\ Len(http_log) <= 2
    /\ (rb_pc \in {"returned", "raised"} /\ rb_branch # NoValue) =>
          LET first == http_log[1].resp
          IN /\ http_log[1].url = RefUrl(rb_branch)
             /\ (first.kind = "ok" /\ first.json.sha # NoValue) =>
                   Len(http_log) = 1 /\ rb_ret = Returns(rb_branch)
             /\ IsNotFound(first) =>
                   /\ Len(http_log) = 2 /\ http_log[2].url = RepoUrl
                   /\ rb_ret = _get_default_branch(http_log[2].resp)
             /\ ~(first.kind = "ok" /\ first.json.sha # NoValue) /\ ~IsNotFound(first) =>
                   Len(http_log) = 1 /\ rb_pc = "raised" /\ rb_ret = FirstError
    /\ (rb_pc \in {"returned", "raised"} /\ rb_branch = NoValue) =>
          /\ Len(http_log) = 1 /\ http_log[1].url = RepoUrl
          /\ rb_ret = _get_default_branch(http_log[1].resp)

\* after an HTTP 404 for the branch the default branch was returned
C14_Witness ==
    /\ rb_pc = "returned" /\ rb_branch = "feature"
    /\ http_log[1].resp.kind = "http" /\ http_log[1].resp.code = "404"
    /\ rb_ret = Returns(DefaultBranch)

\* What holds of C14: at most two requests, the second one only after an
\* error whose message holds 'HTTP 404' or 'Could not resolve branch'.
C14_FallbackOnMessage ==
    /\ Len(http_log) <= 2
    /\ (Len(http_log) = 2 /\ rb_branch # NoValue) =>
          FirstError.raised /\ BranchNotFound(FirstError.exc)

\* a network or authentication error: any error of a request but an HTTP 404
IsFetchError(resp) ==
    \/ resp.kind = "network"
    \/ resp.kind = "http" /\ resp.code # "404"

\* C13: after a network or authentication error of a request of
\* analyze_semantic_diff (the resolution of old_ref or new_ref, the download of
\* a tarball) the error is raised to the caller: the snapshots are not
\* analysed and no result is returned.
C13_FetchErrorsSurface ==
    (\E k \in DOMAIN http_log : IsFetchError(http_log[k].resp))
        => fx_pc[1] \notin {"analyze", "returned"}

C13_Witness ==
    /\ fx_pc[1] = "raised"
    /\ Len(http_log) = 3
    /\ http_log[3].url[1] = "tarball"
    /\ http_log[3].resp.kind = "network"

\* What holds of C13: an error of a tarball download or of a request for the
\* default branch is raised to the caller.
C13_TarballErrorsSurface ==
    \A k \in DOMAIN http_log :
        (/\ http_log[k].resp.kind \in {"network", "http"}
         /\ http_log[k].url[1] \in {"tarball", "repos"})
        => /\ k = Len(http_log)
           /\ fx_pc[1] = "raised"

(***************************************************************************)
(* C15: the paths of the snapshot built from the fetched archive are the   *)
(* repository-relative paths of the files of the ref, and every path of    *)
(* the snapshot holds the bytes of the file committed under that path, so  *)
(* no two files of the ref share a snapshot path; for both backends.       *)
(***************************************************************************)
C15_SnapshotRoundTrip ==
    snap_pc = "done" =>
        /\ DOMAIN snap_files = snap_tree
        /\ \A p \in DOMAIN snap_files : snap_files[p] = p

C15_Witness ==
    /\ snap_pc = "done"
    /\ snap_backend = "local"
    /\ {<<"lib", "a.py">>, <<"src", "a.py">>} \subseteq snap_tree
    /\ DOMAIN snap_files # snap_tree

C15_RemoteRoundTrip ==
    (snap_pc = "done" /\ snap_backend = "github") =>
        /\ DOMAIN snap_files = snap_tree
        /\ \A p \in DOMAIN snap_files : snap_files[p] = p

(***************************************************************************)
(* C17: every DocSuggestion generate_doc_update returns has a confidence   *)
(* between 0 and 1, whatever the text of the provider's response is.       *)
(***************************************************************************)
InUnitInterval(x) == FloatLe(Float(0), x) /\ FloatLe(x, Float(1000))

C17_ConfidenceInRange ==
    (llm_pc = "returned" /\ ~llm_ret.raised)
        => InUnitInterval(llm_ret.value.confidence)

C17_Witness ==
    /\ llm_pc = "returned" /\ ~llm_ret.raised
    /\ llm_ret.value.provider # "fallback"
    /\ llm_ret.value.confidence = Float(850)

\* Without a confidence member, without JSON and in the stub the confidence
\* is the program's own number, which is in range.
C17_OwnConfidenceInRange ==
    (/\ llm_pc = "returned" /\ ~llm_ret.raised
     /\ \/ llm_resp = NoResult
        \/ llm_resp.raised
        \/ llm_ret.value.provider = "fallback"
        \/ ~IsObject(llm_resp.value.response_text.str)
        \/ ~Contains(llm_resp.value.response_text.str, <<Str("confidence")>>))
        => InUnitInterval(llm_ret.value.confidence)

(***************************************************************************)
(* C18: generate_doc_update never raises.  Without a client, and when the  *)
(* provider call or anything after it in the try block fails, it returns   *)
(* the stub (confidence 0.1, provider "fallback", no tokens, no cost); a   *)
(* response text that is not JSON becomes the updated_doc, confidence 0.5. *)
(***************************************************************************)
IsStub(sug) ==
    /\ sug.confidence = Float(100) /\ sug.provider = "fallback"
    /\ sug.tokens_used = 0 /\ sug.cost_usd = 0

NotJsonText(resp_text) ==
    ~resp_text.isnone /\ ~IsObject(resp_text.str) /\ ~IsOtherJson(resp_text.str)

C18_NeverRaises ==
    llm_pc = "returned" =>
        /\ ~llm_ret.raised
        /\ ~llm_client => IsStub(llm_ret.value)
        /\ (llm_client /\ llm_resp.raised) => IsStub(llm_ret.value)
        /\ (llm_client /\ ~llm_resp.raised
              /\ SuggestionFrom(llm_args, llm_resp.value).raised)
               => IsStub(llm_ret.value)
        /\ (llm_client /\ ~llm_resp.raised
              /\ NotJsonText(llm_resp.value.response_text))
               => /\ llm_ret.value.updated_doc = llm_resp.value.response_text
                  /\ llm_ret.value.confidence = Float(500)
                  /\ llm_ret.value.provider = llm_args.provider

C18_Witness ==
    /\ llm_pc = "returned" /\ llm_client /\ ~llm_resp.raised
    /\ SuggestionFrom(llm_args, llm_resp.value).raised
    /\ IsStub(llm_ret.value)

C18_WitnessNotJson ==
    /\ llm_pc = "returned" /\ llm_client /\ ~llm_resp.raised
    /\ NotJsonText(llm_resp.value.response_text)
    /\ llm_ret.value.confidence = Float(500)

(***************************************************************************)
(* C16: the section of a suggestion is in a doc file only if the           *)
(* suggestion was accepted, that is, had a confidence of at least 0.3; a   *)
(* suggestion below the floor, the stub included, is dropped and never     *)
(* written; and every accepted suggestion is in the end written to its doc *)
(* file by append_documentation.                                           *)
(***************************************************************************)
Accepted(k) == k \in DOMAIN upd_status /\ upd_status[k] = "accepted"
Dropped(k) == k \in DOMAIN upd_status /\ upd_status[k] = "dropped"

\* The section of change k, under its heading, is in a doc file.
Written(k) ==
    /\ k \in DOMAIN upd_changes
    /\ \E d \in DOMAIN upd_docs :
         /\ upd_docs[d].exists
         /\ Contains(upd_docs[d].content,
                     <<" ", upd_changes[k].entity, "\n", "\n">>
                     \o SourceLine(upd_changes[k].file) \o <<"\n", "\n">>
                     \o upd_sugg[k].updated_doc)

C16_AcceptedEventuallyWritten ==
    \A k \in 1..MaxChanges : [](Accepted(k) => <>Written(k))

C16_Witness ==
    /\ upd_pc = "commit"
    /\ Len(upd_changes) = 2
    /\ Accepted(1) /\ Written(1)
    /\ Dropped(2) /\ ~Written(2)

C16_WitnessReplaced ==
    /\ upd_pc = "commit"
    /\ Accepted(1) /\ Accepted(2) /\ ~Written(1) /\ Written(2)

\* What is written was accepted, and what was dropped is never written.
C16_WrittenOnlyIfAccepted ==
    \A k \in DOMAIN upd_changes :
        /\ Written(k) => Accepted(k)
        /\ Dropped(k) => /\ ~Written(k)
                         /\ FloatLt(upd_sugg[k].confidence, Float(MIN_CONFIDENCE))
        /\ upd_sugg[k].provider = "fallback" => ~Accepted(k)

\* Accepted means a confidence of at least 0.3.
C16_AcceptedAtLeastFloor ==
    \A k \in DOMAIN upd_changes :
        Accepted(k) => FloatLe(Float(MIN_CONFIDENCE), upd_sugg[k].confidence)

\* When main has written the doc files, every accepted section with a
\* heading of its own (no other accepted section of the same doc file has
\* the same name, letter case aside) is in its file.
C16_DistinctNamesWritten ==
    upd_pc = "commit" =>
        \A k \in DOMAIN upd_changes :
            (/\ Accepted(k)
             /\ \A j \in DOMAIN upd_changes :
                   (j # k /\ Accepted(j)
                      /\ upd_sugg[j].target_doc = upd_sugg[k].target_doc)
                     => Fold(upd_changes[j].entity) # Fold(upd_changes[k].entity))
                => Written(k)

\* main comes to its end.
C16_MainEnds == <>(upd_pc \in {"commit", "returned"})

(***************************************************************************)
(* C19: when the changed code file is classified MAJOR and the entity it   *)
(* defines is mentioned in a doc, analyze_changes followed by              *)
(* prioritize_documentation ends without error and returns an ImpactedDoc  *)
(* of that doc with priority HIGH, the number of matches as the entity's   *)
(* mention count, and the reason "<entity>: MAJOR change".                 *)
(***************************************************************************)
ImpactOf(ret, doc_path) ==
    {k \in DOMAIN ret.impacted_docs : ret.impacted_docs[k].doc_path = doc_path}

C19_MajorChangeImpactsDoc ==
    (e2e_pc = "done" /\ e2e_in.change_type = "major") =>
        \A d \in DOMAIN e2e_in.mentions :
            e2e_in.mentions[d] > 0 =>
                /\ ~prio_runs[1].raised
                /\ \E k \in ImpactOf(prio_runs[1], d) :
                     LET impacted == prio_runs[1].impacted_docs[k]
                     IN  /\ impacted.priority = "HIGH"
                         /\ \E i \in DOMAIN impacted.mention_counts :
                              impacted.mention_counts[i] =
                                  [entity |-> e2e_in.entity,
                                   count |-> e2e_in.mentions[d]]
                         /\ \E i \in DOMAIN impacted.reasons :
                              impacted.reasons[i] = <<e2e_in.entity, "major">>

\* The entity is named like its file: prioritize_documentation raises.
C19_Witness ==
    /\ e2e_pc = "done" /\ e2e_in.change_type = "major"
    /\ e2e_in.entity = <<"f">> /\ e2e_in.path = CodePaths[1]
    /\ e2e_in.mentions["a.md"] = 2
    /\ prio_runs[1].raised

\* The entity is not named like its file: no doc is impacted.
C19_WitnessNoImpact ==
    /\ e2e_pc = "done" /\ e2e_in.change_type = "major"
    /\ e2e_in.entity = <<"g">> /\ e2e_in.path = CodePaths[1]
    /\ e2e_in.mentions["a.md"] = 2
    /\ ~prio_runs[1].raised /\ prio_runs[1].impacted_docs = <<>>

\* The run ends in one of these two ways, whatever the change is.
C19_RaisesOrNoImpact ==
    e2e_pc = "done" =>
        \/ prio_runs[1].raised
        \/ prio_runs[1].impacted_docs = <<>>

(***************************************************************************)
(* C20: under the default settings, two documentation files whose text is  *)
(* identical except for whitespace (the same words in the same order) are  *)
(* in top_pairs of analyze_similarity with a similarity of at least the    *)
(* threshold.                                                              *)
(***************************************************************************)
SameWords(s, t) == split(s) = split(t)

InTopPairs(a_id, b_id) ==
    \E k \in DOMAIN sim_runs[1].top_pairs :
        LET e == sim_runs[1].top_pairs[k]
        IN /\ e[1] = a_id /\ e[2] = b_id
           /\ 1000 * e[3] >= settings.similarity_threshold * settings.minhash_num_perm

C20_WhitespaceVariantsReported ==
    (/\ repo_pc = "done"
     /\ DefaultSimilaritySettings(settings)
     /\ SameWords(repo_files["docs:a.md"], repo_files["docs:b.md"]))
        => InTopPairs("docs:a.md", "docs:b.md")

\* "A A" and "A  A" in the docs repository, default settings: no pair.
C20_Witness ==
    /\ repo_pc = "done"
    /\ DefaultSimilaritySettings(settings)
    /\ repo_files["docs:a.md"] = <<"A", " ", "A">>
    /\ repo_files["docs:b.md"] = <<"A", " ", " ", "A">>
    /\ sim_runs[1].candidates > 0
    /\ sim_runs[1].top_pairs = <<>>

\* With similarity_cross_only the docs pair is never reported, whatever the
\* two texts are.
C20_NoDocsPairWhenCrossOnly ==
    (repo_pc = "done" /\ settings.similarity_cross_only)
        => \A k \in DOMAIN sim_runs[1].top_pairs :
              KindOf(sim_runs[1].top_pairs[k][1]) # KindOf(sim_runs[1].top_pairs[k][2])

\* With similarity_cross_only switched off and normalization on, the docs
\* pair is reported with all rows equal when the texts have the same words
\* once the carriage returns are removed.
C20_ReportedWithoutCrossOnly ==
    (/\ repo_pc = "done"
     /\ ~settings.similarity_cross_only /\ settings.similarity_text_normalize
     /\ SameWords(RemoveCR(repo_files["docs:a.md"]), RemoveCR(repo_files["docs:b.md"])))
        => \E k \in DOMAIN sim_runs[1].top_pairs :
              sim_runs[1].top_pairs[k] = <<"docs:a.md", "docs:b.md", NumPerm>>

\* A code file and a doc with the same words are reported under the default
\* settings.
C20_CrossPairReported ==
    (/\ repo_pc = "done"
     /\ DefaultSimilaritySettings(settings)
     /\ SameWords(RemoveCR(repo_files["code:x.js"]), RemoveCR(repo_files["docs:a.md"])))
        => \E k \in DOMAIN sim_runs[1].top_pairs :
              sim_runs[1].top_pairs[k] = <<"code:x.js", "docs:a.md", NumPerm>>

\* "A A" against "A<CR>A": the same words, but the carriage return is removed
\* before the split and the second text becomes one word; not reported even
\* without similarity_cross_only.
C20_WitnessCarriageReturn ==
    /\ repo_pc = "done"
    /\ ~settings.similarity_cross_only /\ settings.similarity_text_normalize
    /\ repo_files["docs:a.md"] = <<"A", " ", "A">>
    /\ repo_files["docs:b.md"] = <<"A", "\r", "A">>
    /\ ~InTopPairs("docs:a.md", "docs:b.md")

(***************************************************************************)
(* C21: after analyze_cross_references, entity e maps to doc d in the      *)
(* forward index iff the per-doc index of d holds at least one match for   *)
(* e; every extracted entity whose name occurs in some doc is counted as   *)
(* documented and is not in the undocumented list; and documented plus     *)
(* undocumented entities are the total, also for names with upper case.    *)
(***************************************************************************)
\* The name occurs in the text, letter for letter.
OccursIn(name, str) ==
    \E p \in 0..(Len(str) - Len(name)) : SubSeq(str, p + 1, p + Len(name)) = name

OccursInSomeDoc(name) == \E d \in DOMAIN xref_docs : OccursIn(name, xref_docs[d])

ForwardIffPerDoc(ret) ==
    \A e \in (DOMAIN ret.entity_to_docs) \cup xref_entities
              \cup UNION {DOMAIN ret.references_by_doc[d] : d \in DOMAIN ret.references_by_doc},
       d \in SeqToSet(XrefDocs) :
        (e \in DOMAIN ret.entity_to_docs /\ d \in ret.entity_to_docs[e])
            <=> (/\ d \in DOMAIN ret.references_by_doc
                 /\ e \in DOMAIN ret.references_by_doc[d]
                 /\ ret.references_by_doc[d][e] >= 1)

C21_IndexConsistency ==
    xref_pc = "done" =>
        LET ret == xref_ret.value
        IN /\ ForwardIffPerDoc(ret)
           /\ \A e \in xref_entities :
                 OccursInSomeDoc(e) =>
                     /\ e \in DOMAIN ret.entity_to_docs
                     /\ e \notin ret.undocumented_list
           /\ ret.documented_entities + ret.undocumented_entities = ret.total_entities

\* The entity "A", mentioned as "A" in a.md: counted as documented under the
\* key "a" and listed as undocumented under its own name.
C21_Witness ==
    /\ xref_pc = "done"
    /\ xref_entities = {<<"A">>}
    /\ xref_docs["a.md"] = <<"A">>
    /\ xref_ret.value.documented_entities = 1
    /\ xref_ret.value.undocumented_entities = 1
    /\ xref_ret.value.total_entities = 1
    /\ xref_ret.value.undocumented_list = {<<"A">>}

\* The two indexes agree with each other on every key.
C21_ForwardIffPerDoc ==
    xref_pc = "done" => ForwardIffPerDoc(xref_ret.value)

\* For names without upper case the whole claim holds.
C21_LowerCaseConsistent ==
    (xref_pc = "done" /\ \A e \in xref_entities : lower(e) = e) =>
        LET ret == xref_ret.value
        IN /\ \A e \in xref_entities :
                 OccursInSomeDoc(e) =>
                     /\ e \in DOMAIN ret.entity_to_docs
                     /\ e \notin ret.undocumented_list
           /\ ret.documented_entities + ret.undocumented_entities = ret.total_entities

\* The stepwise automaton and the one-step search agree.
C21_SearchAgrees ==
    ac_pc = "done" => ac_ret.by_pattern = find_references(patterns, doc_content)

(***************************************************************************)
(* C22: the label-propagation fallback starts with every node labelled by  *)
(* itself; in each of at most max_iter rounds every node with neighbours   *)
(* takes the label most common among its neighbours, ties going to the     *)
(* smallest label; it stops after the first round without a change; and    *)
(* every label is the id of a node.                                        *)
(***************************************************************************)
\* The most common label among the neighbours of n, the smallest on a tie.
MostCommonSmallest(graph, lab, n) ==
    LET Count(l) == Cardinality({nb \in graph[n] : lab[nb] = l})
        seen == {lab[nb] : nb \in graph[n]}
    IN CHOOSE l \in seen :
          \A o \in seen \ {l} :
             \/ Count(o) < Count(l)
             \/ Count(o) = Count(l) /\ NodeLess(l, o)

\* A round in which the nodes take their labels one after the other.
RECURSIVE RoundInTurn(_, _, _)
RoundInTurn(graph, nodes, lab) ==
    IF nodes = <<>> THEN lab
    ELSE LET n == Head(nodes)
         IN RoundInTurn(graph, Tail(nodes),
                        IF graph[n] = {} THEN lab
                        ELSE [lab EXCEPT ![n] = MostCommonSmallest(graph, lab, n)])

\* A round in which all nodes take their labels at once.
RoundAtOnce(graph, lab) ==
    [n \in DOMAIN lab |->
        IF graph[n] = {} THEN lab[n] ELSE MostCommonSmallest(graph, lab, n)]

RoundAsClaimed ==
    \/ labels' = RoundAtOnce(undirected, labels)
    \/ \E order \in Orders(DOMAIN undirected) :
          labels' = RoundInTurn(undirected, order, labels)

C22_LabelPropagation ==
    [][/\ (com_pc = "labels" /\ ~louvain_installed)
             => labels' = [n \in DOMAIN undirected |-> n]
       /\ com_pc = "propagate"
             => /\ lp_iter < max_iter
                /\ RoundAsClaimed
                /\ (com_pc' = "group") <=> (labels' = labels \/ lp_iter' = max_iter)
                /\ \A n \in DOMAIN labels' : labels'[n] \in DOMAIN undirected]_vars

\* The file scope of a.js calls f and g of a.js: after the first round it has
\* the label of g, the larger of its two neighbours' labels.
C22_Witness ==
    /\ ~louvain_installed /\ lp_iter = 1
    /\ NodeId("a.js", FileScope) \in (DOMAIN undirected) \cap (DOMAIN labels)
    /\ undirected[NodeId("a.js", FileScope)]
          = {NodeId("a.js", "f"), NodeId("a.js", "g")}
    /\ labels[NodeId("a.js", FileScope)] = NodeId("a.js", "g")

\* Everything but the tie-break holds: the start, the bound on the rounds,
\* the stop after a round without change, labels that are node ids.
C22_AllButTieBreak ==
    [][/\ (com_pc = "labels" /\ ~louvain_installed)
             => labels' = [n \in DOMAIN undirected |-> n]
       /\ com_pc = "propagate"
             => /\ lp_iter < max_iter
                /\ (com_pc' = "group") <=> (labels' = labels \/ lp_iter' = max_iter)
                /\ \A n \in DOMAIN labels' : labels'[n] \in DOMAIN undirected]_vars

\* Where no node sees a tie, the round is as claimed.
NoTie(graph, lab) ==
    \A n \in DOMAIN graph :
        LET Count(l) == Cardinality({nb \in graph[n] : lab[nb] = l})
        IN \A l, o \in {lab[nb] : nb \in graph[n]} : l # o => Count(l) # Count(o)

C22_AsClaimedWithoutTies ==
    [][(com_pc = "propagate" /\ NoTie(undirected, labels)) => RoundAsClaimed]_vars

(***************************************************************************)
(* C23: the call graph and the order of enumeration                        *)
(***************************************************************************)
IsJsFile(file) == _ext(file.path) \in {".js", ".ts", ".tsx", ".jsx"}

\* the names file i of the enumeration calls (all at file scope)
CalledBy(i) == _extract_functions_and_calls_js(com_seen[i].data).calls[FileScope]

\* the positions of the enumerated JS/TS files that define fn
DefinersOf(fn) ==
    {j \in 1..Len(com_seen) :
        /\ IsJsFile(com_seen[j])
        /\ fn \in _extract_functions_and_calls_js(com_seen[j].data).funcs}

EarliestDefinition(fn) ==
    LET j == CHOOSE k \in DefinersOf(fn) : \A l \in DefinersOf(fn) : k <= l
    IN NodeId(com_seen[j].path, fn)

EdgesToEarliestDefinition(positions) ==
    \A i \in positions : \A callee \in CalledBy(i) :
        DefinersOf(callee) # {} =>
            /\ NodeId(com_seen[i].path, FileScope) \in DOMAIN adj
            /\ EarliestDefinition(callee) \in adj[NodeId(com_seen[i].path, FileScope)]

JsPositions == {i \in 1..Len(com_seen) : IsJsFile(com_seen[i])}

\* C23: once every file of the snapshot is enumerated, every call to a name
\* that some file of the snapshot defines has an edge from the caller's node
\* (the file scope) to the node of the earliest-enumerated definition of that
\* name, also when the defining file comes after the calling file.
C23_OrderIndependent ==
    (com_pc # "idle" /\ com_todo = <<>>) => EdgesToEarliestDefinition(JsPositions)

\* a.js calls g and is enumerated first, b.ts defines g and is enumerated
\* second: the graph is built and a.js has no edge to g
C23_Witness ==
    /\ com_pc # "idle" /\ com_todo = <<>> /\ Len(com_seen) = 2
    /\ com_seen[1].path = "a.js" /\ com_seen[2].path = "b.ts"
    /\ "g" \in CalledBy(1)
    /\ DefinersOf("g") = {2}
    /\ NodeId("a.js", FileScope) \in DOMAIN adj
    /\ NodeId("b.ts", "g") \notin adj[NodeId("a.js", FileScope)]

\* What holds: a call has its edge when the name is defined in the calling
\* file or in a file enumerated before it.
C23_EdgesToEarlierDefinitions ==
    \A i \in JsPositions : \A callee \in CalledBy(i) :
        (\E j \in DefinersOf(callee) : j <= i) =>
            /\ NodeId(com_seen[i].path, FileScope) \in DOMAIN adj
            /\ EarliestDefinition(callee) \in adj[NodeId(com_seen[i].path, FileScope)]

\* and a call to a name defined only later never gets its edge
C23_NoEdgeToLaterDefinitions ==
    \A i \in JsPositions : \A callee \in CalledBy(i) :
        (DefinersOf(callee) # {} /\ \A j \in DefinersOf(callee) : j > i) =>
            EarliestDefinition(callee) \notin adj[NodeId(com_seen[i].path, FileScope)]

(***************************************************************************)
(* C24: the community size of an impacted doc                              *)
(***************************************************************************)
\* the function a nid id names: what follows "::$"
NameOfNode(nid) ==
    LET k == CHOOSE i \in 1..Len(nid) - 2 :
                 /\ SubSeq(nid, i, i + 2) = <<":", ":", "$">>
                 /\ \A j \in 1..i - 1 : SubSeq(nid, j, j + 2) # <<":", ":", "$">>
    IN SubSeq(nid, k + 3, Len(nid))

\* the retained communities that hold the nid of one of the entities
CommunitiesOf(communities, names) ==
    {i \in 1..Len(communities) :
        \E j \in 1..Len(communities[i]) : NameOfNode(communities[i][j]) \in names}

LargestCommunityOf(communities, names) ==
    IF CommunitiesOf(communities, names) = {} THEN 0
    ELSE SetMax({Len(communities[i]) : i \in CommunitiesOf(communities, names)})

\* C24: for every impacted doc, community_size is the size of the largest
\* retained community that contains one of the doc's changed entities, and 0
\* only if no changed entity belongs to a retained community; the
\* community_map is the one analyze_changes builds from the nid ids that
\* analyze_communities returns.
C24_CommunitySize ==
    (analysis # NoResult /\ analysis.communities \in NodeCommunityLists) =>
        \A r \in 1..Len(prio_runs) : \A i \in 1..Len(Returned(r)) :
            Returned(r)[i].community_size =
                LargestCommunityOf(analysis.communities,
                                   SeqToSet(Returned(r)[i].changed_entities))

\* the changed entity f is in a retained community of three nodes, a doc that
\* mentions f is impacted, and its community_size is 0
C24_Witness ==
    /\ analysis # NoResult /\ analysis.communities \in NodeCommunityLists
    /\ Len(analysis.communities) = 1
    /\ Len(prio_runs) = 1 /\ Len(Returned(1)) > 0
    /\ <<"f">> \in SeqToSet(Returned(1)[1].changed_entities)
    /\ LargestCommunityOf(analysis.communities, {<<"f">>}) = 3
    /\ Returned(1)[1].community_size = 0

\* What holds: no key of the community_map is an entity name, and the
\* community_size of every impacted doc is 0.
C24_AlwaysZero ==
    (analysis # NoResult /\ analysis.communities \in NodeCommunityLists) =>
        /\ \A nid \in DOMAIN analysis.community_map :
              /\ nid \notin DOMAIN analysis.cross_refs
              /\ NameOfNode(nid) # nid
        /\ \A r \in 1..Len(prio_runs) : \A i \in 1..Len(Returned(r)) :
              Returned(r)[i].community_size = 0

\* and the community_map itself is as claimed: every member of a retained
\* community is mapped to the index of its community
C24_MapOfNodeIds ==
    e2e_pc \in {"prioritize", "done"} =>
        \A i \in 1..Len(analysis.communities) :
            \A j \in 1..Len(analysis.communities[i]) :
                /\ analysis.communities[i][j] \in DOMAIN analysis.community_map
                /\ analysis.community_map[analysis.communities[i][j]] = i

(***************************************************************************)
(* C25: the recursion of ZhangShashaDistance.compute                       *)
(***************************************************************************)
\* the number of nodes of the pair a call is made on
PairCount(frame) ==
    IF frame.fn = "_tree_distance"
    THEN size(NodeAt(1, frame.a)) + size(NodeAt(2, frame.b))
    ELSE CostOfIds(1, frame.forest1) + CostOfIds(2, frame.forest2)

\* a step that is a call made by a call in progress
IsRecursiveCall == zs_stack # <<>> /\ Len(zs_stack') = Len(zs_stack) + 1

\* a step in which the memo table answers
IsMemoHit == zs_hits' = zs_hits + 1

\* the answer was computed for the very pair of subtrees now asked for
MemoAnswersSamePair ==
    /\ MemoKey(Top.a, Top.b) \in DOMAIN zs_memo
    /\ zs_memo[MemoKey(Top.a, Top.b)].pair = <<NodeAt(1, Top.a), NodeAt(2, Top.b)>>
    /\ zs_memo[MemoKey(Top.a, Top.b)].value
          = _tree_distance(NodeAt(1, Top.a), NodeAt(2, Top.b))

\* C25, as claimed: every recursive call of _tree_distance / _forest_distance
\* is made on a pair with strictly fewer nodes than the pair of the calling
\* call, and the memo table never answers with a value computed for another
\* pair of subtrees.
C25_EveryCallStrictlySmaller ==
    [][/\ IsRecursiveCall =>
            PairCount(zs_stack'[Len(zs_stack')]) < PairCount(Top)
       /\ IsMemoHit => MemoAnswersSamePair]_vars

\* C25, amended: compute terminates for every pair of trees.  A call of
\* _forest_distance is made on a pair with strictly fewer nodes than the pair
\* of the _tree_distance that calls it; a call of _tree_distance is made on a
\* pair with no more nodes than the pair of the _forest_distance that calls
\* it, hence with strictly fewer nodes than the _tree_distance before that;
\* and the memo table never answers with a value computed for another pair
\* of subtrees.
C25_Terminates ==
    /\ [][/\ (IsRecursiveCall /\ Top.fn = "_tree_distance") =>
                PairCount(zs_stack'[Len(zs_stack')]) < PairCount(Top)
          /\ (IsRecursiveCall /\ Top.fn = "_forest_distance") =>
                /\ PairCount(zs_stack'[Len(zs_stack')]) <= PairCount(Top)
                /\ PairCount(zs_stack'[Len(zs_stack')])
                      < PairCount(zs_stack[Len(zs_stack) - 1])
          /\ IsMemoHit => MemoAnswersSamePair]_vars
    /\ <>(zs_pc = "done")

\* compute has returned the distance of two trees of three nodes each; the
\* memo table answered on the way, and the table was not empty at the start
C25_Witness ==
    /\ zs_pc = "done" /\ zs_hits > 0
    /\ size(zs_in[1]) = 3 /\ size(zs_in[2]) = 3
    /\ zs_ret = compute(zs_in[1], zs_in[2])

\* a _forest_distance call on one tree against one tree calls _tree_distance
\* on a pair of the same size
C25_WitnessSameSize ==
    /\ Len(zs_stack) >= 2
    /\ Top.fn = "_tree_distance"
    /\ zs_stack[Len(zs_stack) - 1].fn = "_forest_distance"
    /\ PairCount(Top) = PairCount(zs_stack[Len(zs_stack) - 1])

\* What compute returns is the distance of the two trees, and the calls in
\* progress are never more than the nodes of the two trees allow.
C25_ReturnsDistance ==
    /\ zs_pc = "done" => zs_ret = compute(zs_in[1], zs_in[2])
    /\ Len(zs_stack) <= 2 * (size(zs_in[1]) + size(zs_in[2]))
    /\ \A key \in DOMAIN zs_memo :
          zs_pc = "run" =>
             zs_memo[key].value = _tree_distance(NodeAt(1, key[1]), NodeAt(2, key[2]))

(***************************************************************************)
(* C26: a commit digest given as old_ref or new_ref                        *)
(***************************************************************************)
GivenDigest(which) == IF which = "old" THEN "digest-old" ELSE "digest-new"

\* the branch lookup of the digest given for this side, as the host answered it
DigestLookups(which) ==
    {k \in 1..Len(http_log) : http_log[k].url = RefUrl(GivenDigest(which))}

AnsweredNotFound(which) ==
    \E k \in DigestLookups(which) :
        http_log[k].resp.kind = "http" /\ http_log[k].resp.code = "404"

TarballsFetched ==
    {http_log[k].url[2] : k \in {i \in 1..Len(http_log) :
                                    /\ http_log[i].url[1] = "tarball"
                                    /\ http_log[i].resp.kind = "ok"}}

\* C26: when the ref given for a side is a commit digest, so that the branch
\* lookup is answered with HTTP 404, the sha of that side is the digest and
\* the snapshot fetched and analysed for it is the one of the digest, not the
\* head of the default branch.
C26_DigestSnapshot ==
    \A which \in Which :
        AnsweredNotFound(which) =>
            /\ ShaFrom(fx_local, which) \in {NoValue, GivenDigest(which)}
            /\ fx_pc = <<"returned", "new">> =>
                  /\ ShaFrom(fx_local, which) = GivenDigest(which)
                  /\ GivenDigest(which) \in TarballsFetched

\* old_ref was a digest, its lookup was answered 404, and the analysis has
\* returned from the snapshot of the head of the default branch
C26_Witness ==
    /\ fx_pc = <<"returned", "new">>
    /\ AnsweredNotFound("old")
    /\ fx_local.old_ref = DefaultBranch
    /\ fx_local.old_sha = ShaOf(DefaultBranch)
    /\ "digest-old" \notin TarballsFetched
    /\ ShaOf(DefaultBranch) \in TarballsFetched

\* the message of the lookup's RuntimeError holds "HTTP 404"
TakenAsNotFound(which) ==
    \E k \in DigestLookups(which) :
        BranchNotFound(_get_commit_sha(GivenDigest(which), http_log[k].resp).exc)

\* What holds: after a 404 the side is the head of the default branch, and the
\* digest is kept when the lookup fails with a RuntimeError whose message
\* does not hold "HTTP 404".
C26_NotFoundGoesToDefault ==
    \A which \in Which :
        (AnsweredNotFound(which) /\ ShaFrom(fx_local, which) # NoValue) =>
            /\ RefOf(fx_local, which) = DefaultBranch
            /\ ShaFrom(fx_local, which) = ShaOf(DefaultBranch)

C26_DigestKeptOnOtherErrors ==
    \A which \in Which :
        (/\ DigestLookups(which) # {}
         /\ ~TakenAsNotFound(which)
         /\ ShaFrom(fx_local, which) # NoValue) =>
            ShaFrom(fx_local, which) = GivenDigest(which)

\* the other error happened: the digest was analysed
C26_WitnessOtherError ==
    /\ fx_pc = <<"returned", "new">>
    /\ DigestLookups("new") # {} /\ ~TakenAsNotFound("new")
    /\ fx_local.new_sha = "digest-new"
    /\ "digest-new" \in TarballsFetched

(***************************************************************************)
(* C27: Merkle roots and different contents                                *)
(***************************************************************************)
BothReturned == \A f \in MerkleFiles : mk_pc[f] = "returned"

\* C27: with SHA-256 free of collisions, two byte sequences that split into
\* different chunk sequences under the same chunk size never get the same
\* root; in particular not the chunks [a, b, c] and [a, b, c, c].
C27_RootsDistinguish ==
    (BothReturned /\ _chunks(mk_data[1], mk_size) # _chunks(mk_data[2], mk_size)) =>
        mk_ret[1].root # mk_ret[2].root

\* the chunks [x, y, x] and [x, y, x, x] have got the same root
C27_Witness ==
    /\ BothReturned /\ mk_size = 1
    /\ mk_data[1] = <<"x", "y", "x">> /\ mk_data[2] = <<"x", "y", "x", "x">>
    /\ mk_ret[1].root = mk_ret[2].root
    /\ mk_ret[1].num_chunks = 3 /\ mk_ret[2].num_chunks = 4

\* What holds: identical bytes give identical roots; files with the same
\* number of chunks and different chunks have different roots; and so have
\* all files when the number of chunks is compared with the root.
C27_SameBytesSameRoot ==
    (BothReturned /\ mk_data[1] = mk_data[2]) => mk_ret[1] = mk_ret[2]

C27_DistinguishedWithChunkCount ==
    (BothReturned /\ mk_data[1] # mk_data[2]) => mk_ret[1] # mk_ret[2]

\* two files with the same root differ in their number of chunks, the longer
\* one ending with a repetition of its last chunks
C27_OnlyPaddingCollides ==
    (/\ BothReturned
     /\ mk_data[1] # mk_data[2]
     /\ mk_ret[1].root = mk_ret[2].root) =>
        /\ mk_ret[1].num_chunks # mk_ret[2].num_chunks
        /\ \/ \E n \in 1..Len(mk_data[1]) :
                 mk_data[2] = mk_data[1] \o SubSeq(mk_data[1], n, Len(mk_data[1]))
           \/ \E n \in 1..Len(mk_data[2]) :
                 mk_data[1] = mk_data[2] \o SubSeq(mk_data[2], n, Len(mk_data[2]))

(***************************************************************************)
(* C28: the average severity of an impacted doc                            *)
(***************************************************************************)
LargestSeverity == SetMax({severity_scores[t] : t \in ChangeTypes})

\* the largest severity among the changed files that contribute to the doc
MaxSeverityOf(d) ==
    SetMax({severity_scores[d.reasons[k][2]] : k \in 1..Len(d.reasons)})

\* avg_severity = severity_sum / max(len(entities), 1), as the fraction
\* severity_sum over n
EntityCount(d) == Max2(Len(d.changed_entities), 1)

\* C28: for every impacted doc avg_severity lies between 0 and the largest
\* severity weight (5) and does not exceed the largest severity of the
\* changed files that contribute to the doc, also when several changed files
\* are attributed to the same entity the doc refers to.
C28_AvgSeverityBounded ==
    \A r \in 1..Len(prio_runs) : \A i \in 1..Len(Returned(r)) :
        LET d == Returned(r)[i]
        IN /\ 0 <= SeveritySum(d.reasons)
           /\ SeveritySum(d.reasons) <= LargestSeverity * EntityCount(d)
           /\ SeveritySum(d.reasons) <= MaxSeverityOf(d) * EntityCount(d)

\* two changed files, both rewritten, are attributed to the one entity a doc
\* refers to: its avg_severity is 10
C28_Witness ==
    \E r \in 1..Len(prio_runs) : \E i \in 1..Len(Returned(r)) :
        LET d == Returned(r)[i]
        IN /\ Len(d.changed_entities) = 1
           /\ Len(d.reasons) = 2
           /\ d.reasons[1] = <<d.changed_entities[1], "rewrite">>
           /\ d.reasons[2] = <<d.changed_entities[1], "rewrite">>
           /\ SeveritySum(d.reasons) = 2 * LargestSeverity

\* What holds: avg_severity is not negative, and it is within the bounds when
\* every entity of the doc is attributed to one changed file only; in general
\* it is at most the largest contributing severity times the number of changed
\* files.
C28_BoundedPerAttribution ==
    \A r \in 1..Len(prio_runs) : \A i \in 1..Len(Returned(r)) :
        LET d == Returned(r)[i]
        IN /\ 0 <= SeveritySum(d.reasons)
           /\ Len(d.reasons) = Len(d.changed_entities) =>
                 SeveritySum(d.reasons) <= MaxSeverityOf(d) * EntityCount(d)
           /\ SeveritySum(d.reasons)
                 <= MaxSeverityOf(d) * EntityCount(d) * Len(analysis.changed_files)

(***************************************************************************)
(* C29: files without shingles                                             *)
(***************************************************************************)
\* the shingle set add_repo gives a file
ShinglesOf(fid) ==
    _file_tokens_from_bytes(
        IF settings.similarity_text_normalize
        THEN _normalize_text(repo_files[fid], _ext(PathOf(fid)))
        ELSE repo_files[fid],
        settings.rolling_hash_window_size,
        settings.similarity_max_tokens_per_file)

ReportedPairs ==
    {<<sim_runs[1].top_pairs[k][1], sim_runs[1].top_pairs[k][2]>> :
        k \in DOMAIN sim_runs[1].top_pairs}

\* C29: two files are reported as a similar pair only if their shingle sets
\* share a shingle; two files whose shingle sets are both empty (content
\* shorter than the window after normalization) are never reported as
\* similar to each other.
C29_EmptyFilesNeverSimilar ==
    repo_pc = "done" =>
        \A pair \in ReportedPairs :
            ~(ShinglesOf(pair[1]) = {} /\ ShinglesOf(pair[2]) = {})

\* default settings: the empty x.js and the one-byte a.md are reported as a
\* pair of similarity 1.0
C29_Witness ==
    /\ repo_pc = "done"
    /\ DefaultSimilaritySettings(settings)
    /\ repo_files["code:x.js"] = <<>> /\ repo_files["docs:a.md"] = <<"A">>
    /\ ShinglesOf("code:x.js") = {} /\ ShinglesOf("docs:a.md") = {}
    /\ \E k \in DOMAIN sim_runs[1].top_pairs :
          sim_runs[1].top_pairs[k] = <<"code:x.js", "docs:a.md", NumPerm>>

\* What holds: a file without shingles has the signature of P - 1 in every
\* row, and under the default settings every code file without shingles is
\* reported with every doc without shingles, with similarity 1.0.
C29_EmptyFilesAlwaysSimilar ==
    /\ repo_pc \in {"edges", "done"} =>
          \A fid \in DOMAIN signatures :
              ShinglesOf(fid) = {} =>
                  signatures[fid] = [i \in 1..settings.minhash_num_perm |-> HashPrime - 1]
    /\ (repo_pc = "done" /\ DefaultSimilaritySettings(settings)) =>
          \A fid \in {"docs:a.md", "docs:b.md"} :
              (ShinglesOf("code:x.js") = {} /\ ShinglesOf(fid) = {}) =>
                  \E k \in DOMAIN sim_runs[1].top_pairs :
                      sim_runs[1].top_pairs[k] = <<"code:x.js", fid, NumPerm>>

(***************************************************************************)
(* Claims about the patched pipeline functions                             *)
(***************************************************************************)
\* the call was made when at least one analyzer had patched the pipeline
AnsweredAfterPatch == pt_pc = "returned" /\ pt_call.patched > 0

\* C30: after any number of calls to patch_pipeline_for_local_git, each of
\* the four rebound functions called with api_base == "local" is answered
\* by the matching method of the most recently patched adapter, and called
\* with any other api_base reaches the def of pipeline.py with the
\* arguments of the call.
C30_PatchedDispatch ==
    AnsweredAfterPatch =>
        IF pt_call.args[1] = "local"
        THEN /\ pt_ret.by = "adapter"
             /\ pt_ret.adapter = pt_call.patched
             /\ pt_ret.method = AdapterMethod(pt_call.fn)
        ELSE /\ pt_ret.by = "remote"
             /\ pt_ret.method = pt_call.fn
             /\ pt_ret.args = pt_call.args

\* a "local" call after two analyzers on different repositories: the second answers
C30_Witness ==
    /\ AnsweredAfterPatch
    /\ pt_call.patched >= 2
    /\ pt_adapters[1] # pt_adapters[pt_call.patched]
    /\ pt_call.args[1] = "local"
    /\ pt_ret.by = "adapter"
    /\ pt_ret.adapter = pt_call.patched

\* a remote call through a chain of three wrappers
C30_WitnessRemote ==
    /\ AnsweredAfterPatch
    /\ pt_call.patched = MaxAnalyzers
    /\ pt_call.args[1] # "local"
    /\ pt_ret.by = "remote"

====
